---- MODULE Spec2Model ----
(***************************************************************************)
(* Model of the Barve Guruji chat client (app.js, full three-stage         *)
(* variant): the send flow insertUserMessage -> callGuruji, the Gemini     *)
(* helpers, the session list and the window events.                        *)
(*                                                                         *)
(* Texts are sequences of one-character strings.  A network call is a      *)
(* suspension point: the turn waits in pc = "Interpreting", "Generating"   *)
(* or "TranslationCheck" until the environment delivers a geminiFetch      *)
(* result.                                                                 *)
(***************************************************************************)
EXTENDS Integers, Sequences, FiniteSets, TLC

\* ------------------------------------------------------------------ bounds
\* MaxTurns: invocations of callGuruji that pass its guard; MaxSends: user
\* messages over all logs; MaxRetries: automatic retries of one token;
\* MaxSessions: sessions ever created; MaxTicks: clock ticks;
\* MaxOverrunTicks: clock ticks a geminiFetch call is followed past its
\* timeout; MaxLog: messages of the log the conversation window is built from.
MaxTurns == 2
MaxSends == 2
MaxRetries == 2
MaxSessions == 2
MaxTicks == 1
MaxOverrunTicks == 1
MaxLog == 20

\* --------------------------------------------------------- program constants
MAX_HISTORY == 18
DEFAULT_LANGUAGE == "mr"
TickMs == 1000
InterpreterTimeoutMs == 20000
TranslationTimeoutMs == 25000
GurujiTimeoutMs == 30000
LatinThreshold == 40
DevanagariThreshold == 10

\* ------------------------------------------------------------------- texts
\* Character classes of the model's alphabet.  "dv" stands for one character
\* of the Devanagari block U+0900..U+097F.
Whitespace == {" ", "\t", "\n"}
Digits == {"0", "1", "2", "3", "4", "5", "6", "7", "8", "9"}
Latin == {"a", "e", "s", "m", "N", "o", "r", "p", "n", "T", "U", "Q", "R"}
Devanagari == {"dv"}

RECURSIVE TrimStart(_)
TrimStart(s) ==
  IF s # <<>> /\ Head(s) \in Whitespace THEN TrimStart(Tail(s)) ELSE s

RECURSIVE TrimEnd(_)
TrimEnd(s) ==
  IF s # <<>> /\ s[Len(s)] \in Whitespace
    THEN TrimEnd(SubSeq(s, 1, Len(s) - 1))
    ELSE s

\* String.prototype.trim
Trim(s) == TrimEnd(TrimStart(s))

Repeat(c, n) == [i \in 1..n |-> c]

CountIn(s, class) == Cardinality({i \in 1..Len(s) : s[i] \in class})

DigitChars == <<"0", "1", "2", "3", "4", "5", "6", "7", "8", "9">>
\* The decimal numeral of i, 0 <= i < 100.
Numeral(i) ==
  IF i < 10 THEN <<DigitChars[i + 1]>>
  ELSE <<DigitChars[(i \div 10) + 1], DigitChars[(i % 10) + 1]>>

NoResponse == <<"[", "N", "o", " ", "r", "e", "s", "p", "o", "n", "s", "e", "]">>

\* ----------------------------------------------------- success envelopes
\* A parsed success body (safeParseJSON(text, null)): isNull stands for a
\* body that does not parse.  A part is an object (with or without a text
\* member), a non-object value such as a string or a number, or null.
Part(kind, hasText, text) == [kind |-> kind, hasText |-> hasText, text |-> text]
TextPart(t) == Part("object", TRUE, t)
Candidate(hasContent, partsKind, parts) ==
  [hasContent |-> hasContent, partsKind |-> partsKind, parts |-> parts]
Envelope(isNull, hasCandidates, candidates) ==
  [isNull |-> isNull, hasCandidates |-> hasCandidates, candidates |-> candidates]

JsonNull == Envelope(TRUE, FALSE, <<>>)
JsonParts(parts) == Envelope(FALSE, TRUE, <<Candidate(TRUE, "list", parts)>>)
JsonText(t) == JsonParts(<<TextPart(t)>>)

RECURSIVE JoinParts(_)
JoinParts(parts) ==
  IF parts = <<>> THEN <<>>
  ELSE (IF Head(parts).kind = "object" /\ Head(parts).hasText
          THEN Head(parts).text ELSE <<>>) \o JoinParts(Tail(parts))

\* extractTextFromGemini: [threw, val].  p.text on a null part raises a
\* TypeError; every other shape yields a text.
ExtractMissing == [threw |-> FALSE, val |-> <<>>]
ExtractParts(parts) ==
  IF \E i \in 1..Len(parts) : parts[i].kind = "null"
    THEN [threw |-> TRUE, val |-> <<>>]
    ELSE [threw |-> FALSE, val |-> JoinParts(parts)]

extractTextFromGemini(data) ==
  IF data.isNull \/ ~data.hasCandidates \/ data.candidates = <<>>
    THEN ExtractMissing
  ELSE LET c0 == data.candidates[1] IN
    IF ~c0.hasContent \/ c0.partsKind # "list"
      THEN ExtractMissing
      ELSE ExtractParts(c0.parts)

\* ------------------------------------------------------------- error bodies
\* The text of a non-ok response.  isJson = FALSE is a body JSON.parse
\* rejects.  A detail is null or an object with an optional "@type" and an
\* optional retryDelay.
RetryInfoType == "type.googleapis.com/google.rpc.RetryInfo"
ErrorInfoType == "type.googleapis.com/google.rpc.ErrorInfo"
TypeIncludesRetryInfo(t) == t = RetryInfoType

Detail(isNull, type, delayKind, retryDelay) ==
  [isNull |-> isNull, type |-> type, delayKind |-> delayKind, retryDelay |-> retryDelay]
ErrBody(isJson, detailsKind, details) ==
  [isJson |-> isJson, detailsKind |-> detailsKind, details |-> details]

ErrPlain == ErrBody(FALSE, "absent", <<>>)
RetryInfoBody(delay) ==
  ErrBody(TRUE, "list",
          <<Detail(FALSE, ErrorInfoType, "absent", <<>>),
            Detail(FALSE, RetryInfoType, "string", delay)>>)

DigitVal(c) ==
  CASE c = "0" -> 0 [] c = "1" -> 1 [] c = "2" -> 2 [] c = "3" -> 3
    [] c = "4" -> 4 [] c = "5" -> 5 [] c = "6" -> 6 [] c = "7" -> 7
    [] c = "8" -> 8 [] c = "9" -> 9

RECURSIVE DigitPrefix(_)
DigitPrefix(s) ==
  IF s # <<>> /\ Head(s) \in Digits THEN <<Head(s)>> \o DigitPrefix(Tail(s)) ELSE <<>>

RECURSIVE DigitsValue(_)
DigitsValue(ds) ==
  IF ds = <<>> THEN 0
  ELSE 10 * DigitsValue(SubSeq(ds, 1, Len(ds) - 1)) + DigitVal(ds[Len(ds)])

\* parseInt(str, 10): <<>> is NaN, <<n>> the number.
ParseInt(str) ==
  LET s == TrimStart(str)
      neg == s # <<>> /\ Head(s) = "-"
      body == IF s # <<>> /\ Head(s) \in {"-", "+"} THEN Tail(s) ELSE s
      ds == DigitPrefix(body)
  IN IF ds = <<>> THEN <<>>
     ELSE <<(IF neg THEN -1 ELSE 1) * DigitsValue(ds)>>

\* String.prototype.replace("s", ""): removes the first "s".
RECURSIVE RemoveFirst(_, _)
RemoveFirst(s, c) ==
  IF s = <<>> THEN <<>>
  ELSE IF Head(s) = c THEN Tail(s)
  ELSE <<Head(s)>> \o RemoveFirst(Tail(s), c)

\* Array.prototype.find over details with d["@type"]?.includes("RetryInfo"):
\* [threw, found, d].  A null detail reached before a match raises.
RECURSIVE FindRetryInfo(_)
FindRetryInfo(details) ==
  IF details = <<>> THEN [threw |-> FALSE, found |-> FALSE, d |-> Detail(TRUE, "absent", "absent", <<>>)]
  ELSE IF Head(details).isNull THEN [threw |-> TRUE, found |-> FALSE, d |-> Head(details)]
  ELSE IF Head(details).type # "absent" /\ TypeIncludesRetryInfo(Head(details).type)
    THEN [threw |-> FALSE, found |-> TRUE, d |-> Head(details)]
  ELSE FindRetryInfo(Tail(details))

\* parseRetryDelaySeconds: <<>> is null, <<n>> the seconds.
parseRetryDelaySeconds(errText) ==
  IF ~errText.isJson \/ errText.detailsKind = "absent" THEN <<>>
  ELSE IF errText.detailsKind = "notlist" THEN <<>>
  ELSE LET f == FindRetryInfo(errText.details) IN
    IF f.threw \/ ~f.found THEN <<>>
    ELSE IF f.d.delayKind = "string" /\ f.d.retryDelay # <<>>
            /\ f.d.retryDelay[Len(f.d.retryDelay)] = "s"
      THEN ParseInt(RemoveFirst(f.d.retryDelay, "s"))
      ELSE <<>>

\* JavaScript truthiness of a parseRetryDelaySeconds value: null and 0 are falsy.
Truthy(sec) == sec # <<>> /\ sec[1] # 0

\* looksEnglish
looksEnglish(text) ==
  LET devanagariCount == CountIn(text, Devanagari)
      latinCount == CountIn(text, Latin)
  IN latinCount > LatinThreshold /\ devanagariCount < DevanagariThreshold

\* ------------------------------------------------------------------ state
VARIABLES
  sessions,         \* the session list, as the sequence of its session ids
  activeSessionId,
  messages,         \* messages[id]: the message log of the session object id
  pendingRetry,     \* <<>> (null) or <<[sessionId, lastUserText, retryAtMs]>>
  sendDisabled,     \* sendBtn.disabled and messageInput.disabled
  language,         \* localStorage bg_language
  apiKey,           \* localStorage bg_api_key, as stored
  onLine,           \* navigator.onLine
  nowMs,            \* Date.now()
  nextId,           \* the next id crypto.randomUUID() gives
  turns,            \* the invocations of callGuruji suspended at an await, oldest first
  started,          \* history: the invocations of callGuruji that passed the guard
  event,            \* history: what the last step did to an invocation of callGuruji
  retryHistory,     \* history: sends and automatic retries since pendingRetry was set
  fetch,            \* one geminiFetch call, step by step (FetchSpec)
  loadedAt,         \* the Date at which the page was loaded, when nowMs was 0
  calls,            \* history: the last calls of the helpers followed one by one
  updatedAtISO,     \* updatedAtISO[id]: the field of the session object id as
                    \* createNewSession and an import set it, which the sort of
                    \* mergeSessions reads: <<>> (missing) or <<ms>>
  cache             \* the service worker's cache: the requests it holds a response for

vars == <<sessions, activeSessionId, messages, pendingRetry, sendDisabled,
          language, apiKey, onLine, nowMs, nextId, turns, started, event,
          retryHistory, fetch, loadedAt, calls, updatedAtISO, cache>>

\* The state of the application, which one geminiFetch call leaves alone.
appVars == <<sessions, activeSessionId, messages, pendingRetry, sendDisabled,
             language, apiKey, onLine, nowMs, nextId, turns, started, event,
             retryHistory, updatedAtISO>>

SessionIds == 1..MaxSessions
\* Ids of sessions made on earlier page loads or elsewhere, which a stored
\* list or an imported file may hold.
ForeignIds == {101, 102}
SeqRange(q) == {q[i] : i \in 1..Len(q)}
Last(q) == q[Len(q)]
RemoveAt(q, i) == SubSeq(q, 1, i - 1) \o SubSeq(q, i + 1, Len(q))

\* ---------------------------------------------------------------- inputs
\* What the user can have typed into messageInput, the prompts of the
\* quick-action buttons, and the keys.
FormInputs == {<<" ">>, <<" ", "T", " ">>}
QuickPrompts == {<<"Q">>}
StoredKeys == {<<>>, <<" ">>, <<"k">>}
KeyInputs == {<<" ">>, <<" ", "k">>}
Languages == {"mr", "en"}

Rewritten == <<"R">>
ReplyMarathi == Repeat("dv", DevanagariThreshold)
ReplyEnglish == Repeat("a", LatinThreshold + 1)
ReplyForty == Repeat("a", LatinThreshold)
ReplyTranslated == <<"dv">>

\* geminiFetch results: a non-ok response carries its status and error text,
\* status 0 is a timeout or a network failure, an ok response its parsed body.
Failure(status, text) == [ok |-> FALSE, status |-> status, json |-> JsonNull, text |-> text]
Success(json) == [ok |-> TRUE, status |-> 200, json |-> json, text |-> ErrPlain]

NullPartBody == JsonParts(<<TextPart(Rewritten), Part("null", FALSE, <<>>)>>)
MalformedBodies ==
  { JsonNull,
    Envelope(FALSE, TRUE, <<Candidate(TRUE, "notlist", <<>>)>>),
    JsonText(<<" ">>),
    NullPartBody }

FailureResults ==
  { Failure(st, ErrPlain) : st \in {0, 400, 401, 403, 404, 500} }
RateLimitResults ==
  { Failure(429, b) : b \in { ErrPlain,
                              RetryInfoBody(<<"0", "s">>),
                              RetryInfoBody(<<"1", "s">>) } }

InterpreterResults ==
  { Failure(500, ErrPlain), Failure(0, ErrPlain) }
    \cup { Success(b) : b \in MalformedBodies \cup {JsonText(Rewritten)} }
GeneratingResults ==
  FailureResults \cup RateLimitResults
    \cup { Success(b) : b \in MalformedBodies
                               \cup {JsonText(ReplyMarathi), JsonText(ReplyEnglish),
                                     JsonText(ReplyForty)} }
TranslationResults ==
  { Failure(500, ErrPlain), Failure(0, ErrPlain) }
    \cup { Success(b) : b \in {JsonNull, NullPartBody, JsonText(ReplyTranslated)} }

\* ------------------------------------------------------------ small readers
getApiKey == Trim(apiKey)
getLanguage == language
getActiveSession == {id \in SeqRange(sessions) : id = activeSessionId}

Message(role, content) == [role |-> role, content |-> content]
RetryToken(sessionId, lastUserText, retryAtMs) ==
  [sessionId |-> sessionId, lastUserText |-> lastUserText, retryAtMs |-> retryAtMs]
NoHistory == [sentSince |-> FALSE, retries |-> 0]
UserMessages(id) == {i \in 1..Len(messages[id]) : messages[id][i].role = "user"}
UserMessageCount ==
  Cardinality({<<id, i>> \in SessionIds \X (1..(2 * MaxSends + MaxTurns)) :
                 i \in UserMessages(id)})

\* --------------------------------------------------------------- payloads
\* Mutant: slice(0, MAX_HISTORY), the oldest messages.
SliceFirst(q, n) == IF Len(q) <= n THEN q ELSE SubSeq(q, 1, n)

\* sessionMessages.slice(-MAX_HISTORY)
SliceLast(q, n) == IF Len(q) <= n THEN q ELSE SubSeq(q, Len(q) - n + 1, Len(q))

\* ------------------------------------------------------------------ dates
\* A Date: day counts the days since 1970-01-01 (UTC), ms the milliseconds
\* into that day.
DayMs == 86400000
\* Asia/Kolkata is UTC+05:30 the year round.
KolkataOffsetMs == 19800000

DateAt(day, ms) == [day |-> day, ms |-> ms]

\* The proleptic Gregorian calendar of Date and Intl: the civil date of a day
\* number and back, with years counted in eras of 400 starting on 1 March.
CivilFromDays(days) ==
  LET z == days + 719468
      era == z \div 146097
      doe == z % 146097
      yoe == (doe - doe \div 1460 + doe \div 36524 - doe \div 146096) \div 365
      doy == doe - (365 * yoe + yoe \div 4 - yoe \div 100)
      mp == (5 * doy + 2) \div 153
      d == doy - (153 * mp + 2) \div 5 + 1
      m == IF mp < 10 THEN mp + 3 ELSE mp - 9
  IN [y |-> yoe + era * 400 + (IF m <= 2 THEN 1 ELSE 0), m |-> m, d |-> d]

DaysFromCivil(y, m, d) ==
  LET yy == IF m <= 2 THEN y - 1 ELSE y
      era == yy \div 400
      yoe == yy % 400
      doy == (153 * (IF m > 2 THEN m - 3 ELSE m + 9) + 2) \div 5 + d - 1
      doe == yoe * 365 + yoe \div 4 - yoe \div 100 + doy
  IN era * 146097 + doe - 719468

\* Date.UTC(year, monthIndex, day): a month index past 11 and a day past
\* the month's end carry over.
DateUTC(year, monthIndex, day) ==
  DateAt(DaysFromCivil(year + monthIndex \div 12, (monthIndex % 12) + 1, 1)
           + day - 1, 0)
getUTCDate(dt) == CivilFromDays(dt.day).d
\* dt.setUTCDate(date), as the value dt has afterwards.
setUTCDate(dt, date) ==
  LET c == CivilFromDays(dt.day)
  IN DateAt(DaysFromCivil(c.y, c.m, 1) + date - 1, dt.ms)

TwoDigits(n) == <<DigitChars[(n \div 10) + 1], DigitChars[(n % 10) + 1]>>
FourDigits(n) == TwoDigits(n \div 100) \o TwoDigits(n % 100)
MonthNames ==
  <<"January", "February", "March", "April", "May", "June", "July",
    "August", "September", "October", "November", "December">>

\* The civil date in Asia/Kolkata at the instant of a Date.
KolkataCivil(date) ==
  CivilFromDays(date.day + (date.ms + KolkataOffsetMs) \div DayMs)

\* getISTDateParts: the day, month and year parts Intl formats.
getISTDateParts(date) ==
  LET c == KolkataCivil(date)
  IN [dd |-> TwoDigits(c.d), mm |-> TwoDigits(c.m), yyyy |-> FourDigits(c.y)]

istDateISO(date) ==
  LET p == getISTDateParts(date)
  IN p.yyyy \o <<"-">> \o p.mm \o <<"-">> \o p.dd

\* istDateHuman, e.g. 08 February 2026; the month's name is one symbol.
istDateHuman(date) ==
  LET c == KolkataCivil(date)
  IN TwoDigits(c.d) \o <<" ", MonthNames[c.m], " ">> \o FourDigits(c.y)

\* String.prototype.split on a one-character separator.
RECURSIVE Split(_, _)
Split(str, sep) ==
  IF \A i \in 1..Len(str) : str[i] # sep THEN <<str>>
  ELSE LET i == CHOOSE k \in 1..Len(str) :
                  str[k] = sep /\ \A j \in 1..(k - 1) : str[j] # sep
       IN <<SubSeq(str, 1, i - 1)>> \o Split(SubSeq(str, i + 1, Len(str)), sep)

\* Mutant: addDaysIST passing the month number to Date.UTC as it stands.
addDaysISTMonthNumber(baseDate, days) ==
  LET iso == istDateISO(baseDate)
      ymd == Split(iso, "-")
      y == DigitsValue(ymd[1])
      m == DigitsValue(ymd[2])
      d == DigitsValue(ymd[3])
      dt == DateUTC(y, m, d)
  IN setUTCDate(dt, getUTCDate(dt) + days)

\* addDaysIST: Number of a part made of digits is its decimal value.
addDaysIST(baseDate, days) ==
  LET iso == istDateISO(baseDate)
      ymd == Split(iso, "-")
      y == DigitsValue(ymd[1])
      m == DigitsValue(ymd[2])
      d == DigitsValue(ymd[3])
      dt == DateUTC(y, m - 1, d)
  IN setUTCDate(dt, getUTCDate(dt) + days)

\* The page was loaded at 2024-02-29T00:00:00Z, 05:30 in Asia/Kolkata.
PageLoaded == DateAt(DaysFromCivil(2024, 2, 29), 0)

\* new Date(): the instant nowMs after the page was loaded.
NewDate ==
  DateAt(loadedAt.day + (loadedAt.ms + nowMs) \div DayMs,
         (loadedAt.ms + nowMs) % DayMs)

\* buildInterpreterPrompt: the text it returns, as its interpolated parts.
buildInterpreterPrompt(lang) ==
  [todayHuman |-> istDateHuman(NewDate),
   todayISO |-> istDateISO(NewDate),
   tomorrowHuman |-> istDateHuman(addDaysIST(NewDate, 1)),
   tomorrowISO |-> istDateISO(addDaysIST(NewDate, 1)),
   dayAfterHuman |-> istDateHuman(addDaysIST(NewDate, 2)),
   dayAfterISO |-> istDateISO(addDaysIST(NewDate, 2)),
   uiLanguage |-> IF lang = "mr" THEN "Marathi" ELSE "English"]

\* buildGurujiSystemInstruction: the text it returns, as its interpolated
\* parts; languageLock is the rule for Marathi ("mr") or the one for English.
buildGurujiSystemInstruction(lang) ==
  [todayHuman |-> istDateHuman(NewDate),
   todayISO |-> istDateISO(NewDate),
   languageLock |-> IF lang = "mr" THEN "mr" ELSE "en"]

\* One call of a helper: its name, its arguments and what it returned.
Call(fn, args, result) == [fn |-> fn, args |-> args, result |-> result]

Content(role, text) == [role |-> role, text |-> text]
HistoryEntry(m) == Content(IF m.role = "assistant" THEN "model" ELSE "user", m.content)

buildGurujiPayload(sessionMessages, finalUserText) ==
  LET window == SliceLast(sessionMessages, MAX_HISTORY)
      history == [i \in 1..Len(window) |-> HistoryEntry(window[i])]
  IN [system |-> buildGurujiSystemInstruction(getLanguage),
      contents |-> Append(history, Content("user", finalUserText))]

NoPayload ==
  [system |-> [todayHuman |-> <<>>, todayISO |-> <<>>, languageLock |-> ""],
   contents |-> <<>>]

\* Mutant: history.push on the log itself, as without the copy slice makes.
LogAfterBuildPushed(sessionMessages, finalUserText) ==
  Append(sessionMessages, Message("user", finalUserText))

\* The array passed as sessionMessages once buildGurujiPayload has returned:
\* slice copies it, map builds a new array from the copy, and push appends
\* to that new array.
LogAfterBuild(sessionMessages, finalUserText) == sessionMessages

\* ------------------------------------------------------------------ events
\* Mutant: an invocation that starts at its persona call.
TurnSkippingInterpreter(id, session, rawUserText, origin) ==
  [id |-> id, session |-> session, rawUserText |-> rawUserText, origin |-> origin,
   pc |-> "Generating", interpLang |-> getLanguage, payload |-> NoPayload,
   reply |-> <<>>, overtaken |-> FALSE]

\* The locals of one invocation: session and rawUserText are its arguments,
\* pc the await it is suspended at.  An invocation issues a geminiFetch call
\* exactly when it enters a pc.  id numbers the invocations that passed the
\* guard.  overtaken is history: an invocation started later by a send on the
\* same session has pushed its reply while this one, started by a send too,
\* was suspended.
Turn(id, session, rawUserText, origin) ==
  [id |-> id, session |-> session, rawUserText |-> rawUserText, origin |-> origin,
   pc |-> "Interpreting", interpLang |-> getLanguage, payload |-> NoPayload,
   reply |-> <<>>, overtaken |-> FALSE]

NoResult == [ok |-> FALSE, status |-> -1, json |-> JsonNull, text |-> ErrPlain]

\* What a step did to an invocation.  type: "guard" (callGuruji returned at
\* its guard), "started" (it passed the guard), "returned" (the geminiFetch
\* call awaited at stage returned result to invocation id; for the other two
\* types stage is the origin of the invocation, "send" or "retry"); outcome: how the
\* step left the invocation: "continues", "Done", "Exception" or the
\* condition reported.
Event(type, id, stage, result, outcome) ==
  [type |-> type, id |-> id, stage |-> stage, result |-> result, outcome |-> outcome]
NoEvent == Event("none", 0, "none", NoResult, "none")

InFlight == {"Interpreting", "Generating", "TranslationCheck"}

\* ------------------------------------------------------------ geminiFetch
\* The timeoutMs of the three call sites, and response statuses.
Timeouts == {InterpreterTimeoutMs, TranslationTimeoutMs, GurujiTimeoutMs}
HttpStatuses == {200, 429, 500, 503}

\* One geminiFetch call.  phase: "idle", "fetching" (suspended at await
\* fetch), "reading" (suspended at await res.text()) or "returned"; armed:
\* the abort timer is set and not cleared; elapsedMs: the time since the call
\* began; status: res.status once fetch has resolved; cause is history: what
\* made the call return.
Fetch(phase, timeoutMs, elapsedMs, armed, status, cause, result) ==
  [phase |-> phase, timeoutMs |-> timeoutMs, elapsedMs |-> elapsedMs,
   armed |-> armed, status |-> status, cause |-> cause, result |-> result]
NoFetch == Fetch("idle", 0, 0, FALSE, 0, "none", NoResult)

\* ------------------------------------------------------------------- Init
\* init() on a store without sessions and language: one fresh session, made
\* the active one, in the default language.
Init ==
  /\ sessions = <<1>>
  /\ activeSessionId = 1
  /\ messages = [id \in SessionIds |-> <<>>]
  /\ pendingRetry = <<>>
  /\ sendDisabled = FALSE
  /\ language = DEFAULT_LANGUAGE
  /\ apiKey \in StoredKeys
  /\ onLine \in BOOLEAN
  /\ nowMs = 0
  /\ nextId = 2
  /\ turns = <<>>
  /\ started = 0
  /\ event = NoEvent
  /\ retryHistory = NoHistory
  /\ fetch = NoFetch
  /\ loadedAt = PageLoaded
  /\ calls = <<>>
  /\ updatedAtISO = [id \in SessionIds \cup ForeignIds |->
                       IF id = 1 THEN <<0>> ELSE <<>>]
  /\ cache = {}

\* ------------------------------------------------------------- callGuruji
\* Mutant: the guard without its navigator.onLine test.
GuardOutcomeIgnoresOffline(key, isOnline) ==
  IF key = <<>> THEN "NoCredential" ELSE "pass"

\* The guard of callGuruji.
GuardOutcome(key, isOnline) ==
  IF key = <<>> THEN "NoCredential"
  ELSE IF ~isOnline THEN "Offline"
  ELSE "pass"

\* callGuruji up to its first await: the guard, then setSendingDisabled(true)
\* and the interpreter request of interpretUserQuery.
callGuruji(session, rawUserText, isOnline, origin) ==
  LET g == GuardOutcome(getApiKey, isOnline)
      turn == Turn(started + 1, session, rawUserText, origin)
  IN IF g # "pass"
       THEN /\ event' = Event("guard", 0, origin, NoResult, g)
            /\ UNCHANGED <<turns, started, sendDisabled>>
       ELSE /\ started < MaxTurns
            /\ started' = started + 1
            /\ turns' = Append(turns, turn)
            /\ sendDisabled' = TRUE
            /\ event' = Event("started", turn.id, origin, NoResult, "continues")

\* The suspended invocations, those that invocation t overtakes by pushing
\* its reply marked.
Overtaking(t) ==
  [i \in 1..Len(turns) |->
     IF /\ turns[i].session = turns[t].session
        /\ turns[i].id < turns[t].id
        /\ turns[i].origin = "send" /\ turns[t].origin = "send"
       THEN [turns[i] EXCEPT !.overtaken = TRUE]
       ELSE turns[i]]

\* Mutant: a finally block that leaves the send affordance as it is.
EndTurnLeavingDisabled(t, result, outcome) ==
  /\ turns' = RemoveAt(IF outcome = "Done" THEN Overtaking(t) ELSE turns, t)
  /\ event' = Event("returned", turns[t].id, turns[t].pc, result, outcome)
  /\ UNCHANGED sendDisabled

\* The finally block of callGuruji, on the way out of invocation t.
EndTurn(t, result, outcome) ==
  /\ turns' = RemoveAt(IF outcome = "Done" THEN Overtaking(t) ELSE turns, t)
  /\ event' = Event("returned", turns[t].id, turns[t].pc, result, outcome)
  /\ sendDisabled' = FALSE

\* An invocation goes on to its next await.
Continue(t, result, turn) ==
  /\ turns' = [turns EXCEPT ![t] = turn]
  /\ event' = Event("returned", turns[t].id, turns[t].pc, result, "continues")
  /\ UNCHANGED sendDisabled

\* interpretUserQuery after its await: [threw, val].
interpretUserQuery(rawUserText, result) ==
  IF ~result.ok THEN [threw |-> FALSE, val |-> rawUserText]
  ELSE LET e == extractTextFromGemini(result.json)
           rewritten == Trim(e.val)
       IN IF e.threw THEN e
          ELSE [threw |-> FALSE,
                val |-> IF rewritten # <<>> THEN rewritten ELSE rawUserText]

\* Mutant: only 401 is reported as an invalid credential.
FailureOutcomeOnly401(status, sec) ==
  IF status = 429 THEN (IF Truthy(sec) THEN "RateLimitedRetryAt" ELSE "RateLimited")
  ELSE IF status = 401 THEN "InvalidCredential"
  ELSE IF status = 400 THEN "BadRequest"
  ELSE IF status = 404 THEN "NotFound"
  ELSE IF status # 0 THEN "ApiErrorWithStatus"
  ELSE "ApiError"

\* The failure branch of callGuruji: the condition reported (the toast shown)
\* for a status.  The last branch shows `API Error ${result.status || ""}`:
\* the status of an HTTP response, and nothing for status 0, which
\* geminiFetch returns for a timeout or a network failure.
FailureOutcome(status, sec) ==
  IF status = 429 THEN (IF Truthy(sec) THEN "RateLimitedRetryAt" ELSE "RateLimited")
  ELSE IF status = 401 \/ status = 403 THEN "InvalidCredential"
  ELSE IF status = 400 THEN "BadRequest"
  ELSE IF status = 404 THEN "NotFound"
  ELSE IF status # 0 THEN "ApiErrorWithStatus"
  ELSE "ApiError"

\* Mutant: every 429 schedules a retry, a minute ahead when no delay is given.
RetryAfterFailureAnyRateLimit(turn, status, sec) ==
  IF status = 429
    THEN <<RetryToken(turn.session, turn.rawUserText,
                      nowMs + (IF Truthy(sec) THEN sec[1] ELSE 60) * 1000)>>
    ELSE pendingRetry

\* The pendingRetry a failed Generating call leaves: set on 429 with a delay.
RetryAfterFailure(turn, status, sec) ==
  IF status = 429 /\ Truthy(sec)
    THEN <<RetryToken(turn.session, turn.rawUserText, nowMs + sec[1] * 1000)>>
    ELSE pendingRetry

\* Mutant: the reply text without the "[No response]" placeholder.
ReplyTextNoPlaceholder(result) ==
  LET e == extractTextFromGemini(result.json)
  IN IF e.threw THEN e ELSE [threw |-> FALSE, val |-> Trim(e.val)]

\* The reply text of an ok Generating result: [threw, val].
ReplyText(result) ==
  LET e == extractTextFromGemini(result.json)
      text == Trim(e.val)
  IN IF e.threw THEN e
     ELSE [threw |-> FALSE, val |-> IF text # <<>> THEN text ELSE NoResponse]

\* translateToMarathiIfNeeded up to its await: whether the call is issued.
NeedsTranslation(replyText) == getLanguage = "mr" /\ looksEnglish(replyText)

\* translateToMarathiIfNeeded after its await: [threw, val].
TranslatedText(replyText, result) ==
  IF ~result.ok THEN [threw |-> FALSE, val |-> replyText]
  ELSE LET e == extractTextFromGemini(result.json)
           out == Trim(e.val)
       IN IF e.threw THEN e
          ELSE [threw |-> FALSE, val |-> IF out # <<>> THEN out ELSE replyText]

\* Mutant: the tail of callGuruji writing the reply over the last message of
\* the log instead of pushing it.
SaveAssistantMessageOverLast(t, result, reply) ==
  /\ messages' = [messages EXCEPT ![turns[t].session] =
                    Append(SubSeq(@, 1, Len(@) - 1), Message("assistant", reply))]
  /\ pendingRetry' = <<>>
  /\ retryHistory' = NoHistory
  /\ EndTurn(t, result, "Done")

\* Mutant: the tail of callGuruji leaving pendingRetry as it is.
SaveAssistantMessageKeepingRetry(t, result, reply) ==
  /\ messages' = [messages EXCEPT ![turns[t].session] =
                    Append(@, Message("assistant", reply))]
  /\ UNCHANGED <<pendingRetry, retryHistory>>
  /\ EndTurn(t, result, "Done")

\* Mutant: the tail of callGuruji pushing the reply to the session that is
\* active when the invocation completes.
SaveAssistantMessageToActive(t, result, reply) ==
  /\ messages' = [messages EXCEPT ![activeSessionId] =
                    Append(@, Message("assistant", reply))]
  /\ pendingRetry' = <<>>
  /\ retryHistory' = NoHistory
  /\ EndTurn(t, result, "Done")

\* The tail of callGuruji: push the assistant message, clear pendingRetry.
SaveAssistantMessage(t, result, reply) ==
  /\ messages' = [messages EXCEPT ![turns[t].session] =
                    Append(@, Message("assistant", reply))]
  /\ pendingRetry' = <<>>
  /\ retryHistory' = NoHistory
  /\ EndTurn(t, result, "Done")

\* The interpreter call of invocation t returns.
InterpreterReturns(t, result) ==
  /\ turns[t].pc = "Interpreting"
  /\ LET r == interpretUserQuery(turns[t].rawUserText, result) IN
       IF r.threw
         THEN /\ EndTurn(t, result, "Exception")
              /\ UNCHANGED messages
         ELSE /\ Continue(t, result,
                   [turns[t] EXCEPT
                      !.pc = "Generating",
                      !.payload = buildGurujiPayload(messages[turns[t].session], r.val)])
              /\ messages' = [messages EXCEPT ![turns[t].session] =
                                LogAfterBuild(@, r.val)]
  /\ UNCHANGED <<cache, fetch, loadedAt, calls, updatedAtISO, sessions, activeSessionId, pendingRetry, language,
                 apiKey, onLine, nowMs, nextId, started, retryHistory>>

\* Mutant: the failure branch without its return, which falls through to the
\* tail of callGuruji with no reply text.
GeneratingFailedNoReturn(t, result) == SaveAssistantMessage(t, result, NoResponse)

\* The persona call of invocation t returned a failure.
GeneratingFailed(t, result) ==
  LET sec == IF result.status = 429
               THEN parseRetryDelaySeconds(result.text) ELSE <<>>
  IN /\ pendingRetry' = RetryAfterFailure(turns[t], result.status, sec)
     /\ retryHistory' = IF result.status = 429 /\ Truthy(sec)
                          THEN NoHistory ELSE retryHistory
     /\ EndTurn(t, result, FailureOutcome(result.status, sec))
     /\ UNCHANGED messages

\* Mutant: the reply pushed to the log before the translation call is awaited.
GeneratingSucceededPushingEarly(t, result) ==
  LET r == ReplyText(result) IN
  IF r.threw
    THEN /\ EndTurn(t, result, "Exception")
         /\ UNCHANGED <<messages, pendingRetry, retryHistory>>
  ELSE IF NeedsTranslation(r.val)
    THEN /\ Continue(t, result,
                     [turns[t] EXCEPT !.pc = "TranslationCheck", !.reply = r.val])
         /\ messages' = [messages EXCEPT ![turns[t].session] =
                           Append(@, Message("assistant", r.val))]
         /\ UNCHANGED <<pendingRetry, retryHistory>>
  ELSE SaveAssistantMessage(t, result, r.val)

\* The persona call of invocation t returned a reply.
GeneratingSucceeded(t, result) ==
  LET r == ReplyText(result) IN
  IF r.threw
    THEN /\ EndTurn(t, result, "Exception")
         /\ UNCHANGED <<messages, pendingRetry, retryHistory>>
  ELSE IF NeedsTranslation(r.val)
    THEN /\ Continue(t, result,
                     [turns[t] EXCEPT !.pc = "TranslationCheck", !.reply = r.val])
         /\ UNCHANGED <<messages, pendingRetry, retryHistory>>
  ELSE SaveAssistantMessage(t, result, r.val)

GeneratingReturns(t, result) ==
  /\ turns[t].pc = "Generating"
  /\ IF ~result.ok THEN GeneratingFailed(t, result) ELSE GeneratingSucceeded(t, result)
  /\ UNCHANGED <<cache, fetch, loadedAt, calls, updatedAtISO, sessions, activeSessionId, language, apiKey, onLine, nowMs,
                 nextId, started>>

\* The corrective translation call of invocation t returns.
TranslationReturns(t, result) ==
  /\ turns[t].pc = "TranslationCheck"
  /\ LET r == TranslatedText(turns[t].reply, result) IN
       IF r.threw
         THEN /\ EndTurn(t, result, "Exception")
              /\ UNCHANGED <<messages, pendingRetry, retryHistory>>
         ELSE SaveAssistantMessage(t, result, r.val)
  /\ UNCHANGED <<cache, fetch, loadedAt, calls, updatedAtISO, sessions, activeSessionId, language, apiKey, onLine, nowMs,
                 nextId, started>>

\* ------------------------------------------------------- insertUserMessage
insertUserMessage(rawText) ==
  LET text == Trim(rawText) IN
  IF text = <<>> \/ getActiveSession = {}
    THEN /\ event' = NoEvent
         /\ UNCHANGED <<cache, fetch, loadedAt, calls, updatedAtISO, sessions, activeSessionId, messages, pendingRetry,
                        sendDisabled, language, apiKey, onLine, nowMs, nextId,
                        turns, started, retryHistory>>
    ELSE /\ UserMessageCount < MaxSends
         /\ messages' = [messages EXCEPT ![activeSessionId] =
                           Append(@, Message("user", text))]
         /\ callGuruji(activeSessionId, text, onLine, "send")
         /\ retryHistory' = IF pendingRetry # <<>>
                              THEN [retryHistory EXCEPT !.sentSince = TRUE]
                              ELSE retryHistory
         /\ UNCHANGED <<cache, fetch, loadedAt, calls, updatedAtISO, sessions, activeSessionId, pendingRetry, language, apiKey,
                        onLine, nowMs, nextId>>

\* inputForm "submit": the send button is the form's submit control.
FormSubmit ==
  /\ ~sendDisabled
  /\ \E rawText \in FormInputs : insertUserMessage(rawText)

\* messageInput "keydown" with Enter.
EnterKey ==
  /\ ~sendDisabled
  /\ \E rawText \in FormInputs : insertUserMessage(rawText)

\* A quick-action button with a prompt; these buttons are never disabled.
QuickActionClick ==
  \E prompt \in QuickPrompts : insertUserMessage(prompt)

\* ----------------------------------------------------------- window events
\* Mutant: the listener without its test of the active session.
RetryDueAnySession ==
  /\ pendingRetry # <<>>
  /\ nowMs >= pendingRetry[1].retryAtMs
  /\ getActiveSession # {}

\* The condition under which the "online" listener calls callGuruji.
RetryDue ==
  /\ pendingRetry # <<>>
  /\ nowMs >= pendingRetry[1].retryAtMs
  /\ getActiveSession # {}
  /\ pendingRetry[1].sessionId = activeSessionId

\* Mutant: the listener retrying through insertUserMessage, which pushes the
\* text onto the log before it calls callGuruji.
OnlineEventResending ==
  /\ ~onLine
  /\ onLine' = TRUE
  /\ IF RetryDue
       THEN /\ retryHistory.retries < MaxRetries
            /\ messages' = [messages EXCEPT ![activeSessionId] =
                              Append(@, Message("user", pendingRetry[1].lastUserText))]
            /\ callGuruji(activeSessionId, pendingRetry[1].lastUserText, TRUE, "retry")
            /\ retryHistory' = [retryHistory EXCEPT !.retries = @ + 1]
       ELSE /\ event' = NoEvent
            /\ UNCHANGED <<messages, turns, started, sendDisabled, retryHistory>>
  /\ UNCHANGED <<cache, fetch, loadedAt, calls, updatedAtISO, sessions, activeSessionId, pendingRetry, language,
                 apiKey, nowMs, nextId>>

\* window "online": the retry of a due pendingRetry on the active session.
OnlineEvent ==
  /\ ~onLine
  /\ onLine' = TRUE
  /\ IF RetryDue
       THEN /\ retryHistory.retries < MaxRetries
            /\ callGuruji(activeSessionId, pendingRetry[1].lastUserText, TRUE, "retry")
            /\ retryHistory' = [retryHistory EXCEPT !.retries = @ + 1]
       ELSE /\ event' = NoEvent
            /\ UNCHANGED <<turns, started, sendDisabled, retryHistory>>
  /\ UNCHANGED <<cache, fetch, loadedAt, calls, updatedAtISO, sessions, activeSessionId, messages, pendingRetry, language,
                 apiKey, nowMs, nextId>>

\* window "offline"
OfflineEvent ==
  /\ onLine
  /\ onLine' = FALSE
  /\ event' = NoEvent
  /\ UNCHANGED <<cache, fetch, loadedAt, calls, updatedAtISO, sessions, activeSessionId, messages, pendingRetry, sendDisabled,
                 language, apiKey, nowMs, nextId, turns, started, retryHistory>>

\* Time passes.  Date.now() is read only to set and to test
\* pendingRetry.retryAtMs, so the clock is advanced only while a token waits
\* for its time.
Tick ==
  /\ nowMs < MaxTicks * TickMs
  /\ pendingRetry # <<>> /\ nowMs < pendingRetry[1].retryAtMs
  /\ nowMs' = nowMs + TickMs
  /\ event' = NoEvent
  /\ UNCHANGED <<cache, fetch, loadedAt, calls, updatedAtISO, sessions, activeSessionId, messages, pendingRetry, sendDisabled,
                 language, apiKey, onLine, nextId, turns, started, retryHistory>>

\* --------------------------------------------------------------- sessions
createNewSession ==
  /\ nextId <= MaxSessions
  /\ sessions' = <<nextId>> \o sessions
  /\ activeSessionId' = nextId
  /\ nextId' = nextId + 1
  /\ updatedAtISO' = [updatedAtISO EXCEPT ![nextId] = <<nowMs>>]

\* newSessionBtn, and the quick action "New Consultation".
NewSessionClick ==
  /\ createNewSession
  /\ event' = NoEvent
  /\ UNCHANGED <<cache, fetch, loadedAt, calls, messages, pendingRetry, sendDisabled, language, apiKey, onLine,
                 nowMs, turns, started, retryHistory>>

\* Mutant: langToggle "click" switching the mode within the active session.
LangToggleClickKeepingSession ==
  /\ language' = IF getLanguage = "mr" THEN "en" ELSE "mr"
  /\ event' = NoEvent
  /\ UNCHANGED <<cache, fetch, loadedAt, calls, updatedAtISO, sessions, activeSessionId, nextId, messages, pendingRetry,
                 sendDisabled, apiKey, onLine, nowMs, turns, started, retryHistory>>

\* langToggle "click"
LangToggleClick ==
  /\ language' = IF getLanguage = "mr" THEN "en" ELSE "mr"
  /\ createNewSession
  /\ event' = NoEvent
  /\ UNCHANGED <<cache, fetch, loadedAt, calls, messages, pendingRetry, sendDisabled, apiKey, onLine, nowMs,
                 turns, started, retryHistory>>

\* settingsLang "change"
SettingsLangChange ==
  /\ \E value \in Languages \ {language} : language' = value
  /\ createNewSession
  /\ event' = NoEvent
  /\ UNCHANGED <<cache, fetch, loadedAt, calls, messages, pendingRetry, sendDisabled, apiKey, onLine, nowMs,
                 turns, started, retryHistory>>

\* The open button of a row of the sessions list.
OpenSessionClick ==
  /\ \E id \in SeqRange(sessions) \ {activeSessionId} : activeSessionId' = id
  /\ event' = NoEvent
  /\ UNCHANGED <<cache, fetch, loadedAt, calls, updatedAtISO, sessions, messages, pendingRetry, sendDisabled, language, apiKey,
                 onLine, nowMs, nextId, turns, started, retryHistory>>

\* saveApiKeyBtn "click"
SaveApiKeyClick ==
  /\ \E input \in KeyInputs :
       LET key == Trim(input) IN
       apiKey' = IF key = <<>> THEN apiKey ELSE key
  /\ event' = NoEvent
  /\ UNCHANGED <<cache, fetch, loadedAt, calls, updatedAtISO, sessions, activeSessionId, messages, pendingRetry, sendDisabled,
                 language, onLine, nowMs, nextId, turns, started, retryHistory>>

\* forgetApiKeyBtn "click": localStorage.removeItem
ForgetApiKeyClick ==
  /\ apiKey' = <<>>
  /\ event' = NoEvent
  /\ UNCHANGED <<cache, fetch, loadedAt, calls, updatedAtISO, sessions, activeSessionId, messages, pendingRetry, sendDisabled,
                 language, onLine, nowMs, nextId, turns, started, retryHistory>>

\* ------------------------------------------------------------ specification
NetworkReturns ==
  \E t \in 1..Len(turns) :
    \/ \E result \in InterpreterResults : InterpreterReturns(t, result)
    \/ \E result \in GeneratingResults : GeneratingReturns(t, result)
    \/ \E result \in TranslationResults : TranslationReturns(t, result)

Next ==
  \/ FormSubmit
  \/ EnterKey
  \/ QuickActionClick
  \/ NetworkReturns
  \/ OnlineEvent
  \/ OfflineEvent
  \/ Tick
  \/ NewSessionClick
  \/ LangToggleClick
  \/ SettingsLangChange
  \/ OpenSessionClick
  \/ SaveApiKeyClick
  \/ ForgetApiKeyClick

Spec == Init /\ [][Next]_vars

\* The scheduling assumed of the environment: a pending geminiFetch call
\* returns (its response arrives whole, or its fetch fails or is aborted by
\* the timer; FetchSpec follows one call step by step), and time passes.
\* Window events and user actions may never come.
FairSpec == Spec /\ WF_vars(NetworkReturns) /\ WF_vars(Tick)

\* The turns alone, with the key stored: messages are sent, from the form
\* and from the quick-action buttons, the browser goes offline and online,
\* "online" events retry, time passes, and every pending geminiFetch call
\* returns.
TurnInit == Init /\ apiKey = <<"k">> /\ onLine

TurnNext ==
  \/ FormSubmit
  \/ QuickActionClick
  \/ NetworkReturns
  \/ OnlineEvent
  \/ OfflineEvent
  \/ Tick

TurnSpec == TurnInit /\ [][TurnNext]_vars /\ WF_vars(NetworkReturns)

\* ------------------------------------------- geminiFetch, step by step
\* geminiFetch is entered: the abort timer is set and fetch is awaited.
geminiFetchCall ==
  /\ fetch.phase = "idle"
  /\ \E timeoutMs \in Timeouts :
       fetch' = Fetch("fetching", timeoutMs, 0, TRUE, 0, "none", NoResult)
  /\ UNCHANGED <<cache, appVars, loadedAt, calls>>

\* fetch resolves with the status line and headers of the response: the
\* timer is cleared, then res.text() is awaited.
FetchResolves ==
  /\ fetch.phase = "fetching"
  /\ \E status \in HttpStatuses :
       fetch' = [fetch EXCEPT !.phase = "reading", !.armed = FALSE, !.status = status]
  /\ UNCHANGED <<cache, appVars, loadedAt, calls>>

\* fetch rejects (no connection): the catch block clears the timer and
\* returns status 0.
FetchRejects ==
  /\ fetch.phase = "fetching"
  /\ fetch' = [fetch EXCEPT !.phase = "returned", !.armed = FALSE,
                            !.cause = "rejected", !.result = Failure(0, ErrPlain)]
  /\ UNCHANGED <<cache, appVars, loadedAt, calls>>

\* The timer set on entry fires: controller.abort() makes the pending fetch
\* reject, and the catch block returns status 0.
AbortTimerFires ==
  /\ fetch.armed
  /\ fetch.elapsedMs >= fetch.timeoutMs
  /\ fetch.phase = "fetching"
  /\ fetch' = [fetch EXCEPT !.phase = "returned", !.armed = FALSE,
                            !.cause = "aborted", !.result = Failure(0, ErrPlain)]
  /\ UNCHANGED <<cache, appVars, loadedAt, calls>>

\* res.text() resolves with the body: the result by res.ok.
BodyArrives ==
  /\ fetch.phase = "reading"
  /\ \E result \in IF fetch.status = 200
                      THEN { Success(b) : b \in {JsonNull, JsonText(Rewritten)} }
                      ELSE { Failure(fetch.status, ErrPlain) } :
       fetch' = [fetch EXCEPT !.phase = "returned", !.cause = "response",
                              !.result = result]
  /\ UNCHANGED <<cache, appVars, loadedAt, calls>>

\* res.text() rejects (the connection breaks): the catch block returns
\* status 0.
BodyFails ==
  /\ fetch.phase = "reading"
  /\ fetch' = [fetch EXCEPT !.phase = "returned", !.cause = "rejected",
                            !.result = Failure(0, ErrPlain)]
  /\ UNCHANGED <<cache, appVars, loadedAt, calls>>

\* Time passes while the call is suspended.  A timer that is set fires when
\* its time has come, before more time passes.
FetchTick ==
  /\ fetch.phase \in {"fetching", "reading"}
  /\ ~(fetch.armed /\ fetch.elapsedMs >= fetch.timeoutMs)
  /\ fetch.elapsedMs < fetch.timeoutMs + MaxOverrunTicks * TickMs
  /\ fetch' = [fetch EXCEPT !.elapsedMs = @ + TickMs]
  /\ UNCHANGED <<cache, appVars, loadedAt, calls>>

\* The caller resumes with the result.
FetchReturned ==
  /\ fetch.phase = "returned"
  /\ fetch' = NoFetch
  /\ UNCHANGED <<cache, appVars, loadedAt, calls>>

FetchInit == Init /\ apiKey = <<"k">> /\ onLine

FetchNext ==
  \/ geminiFetchCall
  \/ FetchResolves
  \/ FetchRejects
  \/ AbortTimerFires
  \/ BodyArrives
  \/ BodyFails
  \/ FetchTick
  \/ FetchReturned

FetchSpec == FetchInit /\ [][FetchNext]_vars

\* ------------------------------------------- the conversation window
\* The growth of one session's log over many turns, each turn taken up to
\* the request buildGurujiPayload builds for it: the text of the message at
\* position i is the numeral of i.

\* insertUserMessage pushes the user message, and callGuruji, its interpreter
\* call returned, builds the Generating request.
WindowSend ==
  /\ turns = <<>>
  /\ Len(messages[activeSessionId]) < MaxLog
  /\ LET text == Numeral(Len(messages[activeSessionId]) + 1)
         log == Append(messages[activeSessionId], Message("user", text))
     IN \E finalUserText \in {text, Rewritten} :
          /\ messages' = [messages EXCEPT ![activeSessionId] =
                            LogAfterBuild(log, finalUserText)]
          /\ turns' = << [Turn(1, activeSessionId, text, "send") EXCEPT
                            !.pc = "Generating",
                            !.payload = buildGurujiPayload(log, finalUserText)] >>
  /\ UNCHANGED <<cache, fetch, loadedAt, calls, updatedAtISO, sessions, activeSessionId, pendingRetry, sendDisabled,
                 language, apiKey, onLine, nowMs, nextId, started, event,
                 retryHistory>>

\* The persona call returns a reply and callGuruji pushes it.
WindowReply ==
  /\ turns # <<>>
  /\ Len(messages[turns[1].session]) < MaxLog
  /\ messages' = [messages EXCEPT ![turns[1].session] =
                    Append(@, Message("assistant", Numeral(Len(@) + 1)))]
  /\ turns' = <<>>
  /\ UNCHANGED <<cache, fetch, loadedAt, calls, updatedAtISO, sessions, activeSessionId, pendingRetry, sendDisabled,
                 language, apiKey, onLine, nowMs, nextId, started, event,
                 retryHistory>>

\* The persona call fails and callGuruji returns without a push.
WindowFail ==
  /\ turns # <<>>
  /\ turns' = <<>>
  /\ UNCHANGED <<cache, fetch, loadedAt, calls, updatedAtISO, sessions, activeSessionId, messages, pendingRetry,
                 sendDisabled, language, apiKey, onLine, nowMs, nextId, started,
                 event, retryHistory>>

WindowInit == Init /\ apiKey = <<"k">> /\ onLine

WindowNext ==
  \/ WindowSend
  \/ WindowReply
  \/ WindowFail

WindowSpec == WindowInit /\ [][WindowNext]_vars

\* -------------------------------------------- extractTextFromGemini alone
\* The function applied to parsed success bodies of every shape.
MaxParts == 3
PartValues ==
  {TextPart(<<"a">>), TextPart(<<" ">>), TextPart(<<>>),
   Part("object", FALSE, <<>>), Part("string", FALSE, <<>>),
   Part("null", FALSE, <<>>)}
SuccessBodies ==
  {JsonNull,
   Envelope(FALSE, FALSE, <<>>),
   Envelope(FALSE, TRUE, <<>>),
   Envelope(FALSE, TRUE, <<Candidate(FALSE, "absent", <<>>)>>),
   Envelope(FALSE, TRUE, <<Candidate(TRUE, "absent", <<>>)>>),
   Envelope(FALSE, TRUE, <<Candidate(TRUE, "notlist", <<>>)>>)}
  \cup {JsonParts(parts) : parts \in UNION {[1..n -> PartValues] : n \in 0..MaxParts}}

ExtractCall ==
  /\ \E data \in SuccessBodies :
       calls' = <<Call("extractTextFromGemini", data,
                       extractTextFromGemini(data))>>
  /\ UNCHANGED <<cache, appVars, fetch, loadedAt>>

ExtractNext == ExtractCall
ExtractSpec == Init /\ [][ExtractNext]_vars

\* ------------------------------------------------ the prompt builders alone
\* The two builders called, for either language, as the hours pass on an
\* open page; calls keeps the last two calls.
MaxHours == 48

ClockAdvances ==
  /\ nowMs < MaxHours * (DayMs \div 24)
  /\ nowMs' = nowMs + DayMs \div 24
  /\ UNCHANGED <<cache, fetch, loadedAt, calls, updatedAtISO, sessions, activeSessionId, messages, pendingRetry,
                 sendDisabled, language, apiKey, onLine, nextId, turns, started, event,
                 retryHistory>>

BuildInterpreterCall ==
  /\ \E lang \in Languages :
       calls' = <<Call("buildInterpreterPrompt", lang, buildInterpreterPrompt(lang))>>
                  \o SubSeq(calls, 1, IF calls = <<>> THEN 0 ELSE 1)
  /\ UNCHANGED <<cache, appVars, fetch, loadedAt>>

BuildGurujiCall ==
  /\ \E lang \in Languages :
       calls' = <<Call("buildGurujiSystemInstruction", lang,
                       buildGurujiSystemInstruction(lang))>>
                  \o SubSeq(calls, 1, IF calls = <<>> THEN 0 ELSE 1)
  /\ UNCHANGED <<cache, appVars, fetch, loadedAt>>

PromptNext ==
  \/ ClockAdvances
  \/ BuildInterpreterCall
  \/ BuildGurujiCall

PromptSpec == Init /\ [][PromptNext]_vars

\* ------------------------------------------------------- addDaysIST alone
\* The function applied to instants around the ends of months and years, in
\* leap years and others, just before and just after midnight in Asia/Kolkata
\* (18:30 UTC) and in UTC.
ReferenceInstants ==
  LET days == {DaysFromCivil(2000, 2, 28), DaysFromCivil(2000, 2, 29),
               DaysFromCivil(2023, 12, 30), DaysFromCivil(2023, 12, 31),
               DaysFromCivil(2024, 2, 27), DaysFromCivil(2024, 2, 28),
               DaysFromCivil(2024, 2, 29), DaysFromCivil(2024, 3, 30),
               DaysFromCivil(2024, 3, 31), DaysFromCivil(2024, 4, 29),
               DaysFromCivil(2024, 4, 30), DaysFromCivil(2025, 2, 27),
               DaysFromCivil(2025, 2, 28), DaysFromCivil(2026, 6, 15),
               DaysFromCivil(2100, 2, 27), DaysFromCivil(2100, 2, 28)}
      times == {0, DayMs - KolkataOffsetMs - 1, DayMs - KolkataOffsetMs,
                DayMs - 1}
  IN {DateAt(day, ms) : day \in days, ms \in times}

AddDaysCall ==
  /\ \E baseDate \in ReferenceInstants, days \in {1, 2} :
       calls' = <<Call("addDaysIST", [baseDate |-> baseDate, days |-> days],
                       addDaysIST(baseDate, days))>>
  /\ UNCHANGED <<cache, appVars, fetch, loadedAt>>

DateNext == AddDaysCall
DateSpec == Init /\ [][DateNext]_vars

\* ------------------------------------- the requests of the three variants
\* What each variant of the application hands to fetch(): the URL, the
\* headers and the body.  The three-stage application sends through
\* geminiFetch, the two single-stage ones through callGemini and
\* callGeminiAPI.
\* encodeURIComponent: whitespace is percent-encoded, a letter, a digit and
\* a model's name stay as they are.
EncodeChar(c) ==
  CASE c = " " -> <<"%", "2", "0">>
    [] c = "\t" -> <<"%", "0", "9">>
    [] c = "\n" -> <<"%", "0", "A">>
    [] OTHER -> <<c>>
RECURSIVE encodeURIComponent(_)
encodeURIComponent(str) ==
  IF str = <<>> THEN <<>> ELSE EncodeChar(Head(str)) \o encodeURIComponent(Tail(str))

\* API_BASE is "https://generativelanguage.googleapis.com/v1beta/models".
GURUJI_URL ==
  <<"https://generativelanguage.googleapis.com/v1beta/models", "/">>
    \o encodeURIComponent(<<"gemini-2.5-flash">>) \o <<":generateContent">>
INTERPRETER_URL ==
  <<"https://generativelanguage.googleapis.com/v1beta/models", "/">>
    \o encodeURIComponent(<<"gemini-flash-lite-latest">>) \o <<":generateContent">>
GEMINI_URL ==
  <<"https://generativelanguage.googleapis.com/v1beta/models", "/",
    "gemini-flash-lite-latest", ":generateContent">>

\* JSON.stringify(payload): the texts of the contents, in order, each between
\* quotes.
RECURSIVE Stringify(_)
Stringify(contents) ==
  IF contents = <<>> THEN <<>>
  ELSE <<"\"">> \o Head(contents).text \o <<"\"">> \o Stringify(Tail(contents))

Request(url, headers, body) == [url |-> url, headers |-> headers, body |-> body]

\* geminiFetch (three stages): the key goes in the X-goog-api-key header.
geminiFetchRequest(url, key, payload) ==
  Request(url,
          {[name |-> "Content-Type", value |-> <<"application/json">>],
           [name |-> "X-goog-api-key", value |-> key]},
          Stringify(payload.contents))

\* callGemini (single stage): the same header.
callGeminiRequest(key, payload) ==
  Request(GEMINI_URL,
          {[name |-> "Content-Type", value |-> <<"application/json">>],
           [name |-> "X-goog-api-key", value |-> key]},
          Stringify(payload.contents))

\* callGeminiAPI (single stage, gemini-1.5-flash): the key is the key
\* parameter of the URL's query.
callGeminiAPIRequest(key, payload) ==
  Request(<<"https://generativelanguage.googleapis.com/v1beta/models", "/",
            "gemini-1.5-flash", ":generateContent", "?key=">>
            \o encodeURIComponent(key),
          {[name |-> "Content-Type", value |-> <<"application/json">>]},
          Stringify(payload.contents))

\* The values localStorage holds for the key, and the payloads sent.
StoredKeyValues == {<<>>, <<"k">>, <<" ", "k">>, <<"k", "y">>, <<"k", "y", " ">>}
RequestPayloads ==
  LET texts == {<<"T">>, <<" ", "T", " ">>, <<"Q">>, <<"R">>}
  IN {[contents |-> <<Content("user", t)>>] : t \in texts}
       \cup {[contents |-> <<Content("user", t), Content("model", ReplyTranslated),
                             Content("user", u)>>] : t, u \in texts}

\* callGuruji and its helpers read the key with getApiKey, which trims it.
GeminiFetchSends ==
  /\ \E stored \in StoredKeyValues, url \in {GURUJI_URL, INTERPRETER_URL},
        payload \in RequestPayloads :
       /\ Trim(stored) # <<>>
       /\ calls' = <<Call("fetch", [variant |-> "geminiFetch", stored |-> stored],
                          geminiFetchRequest(url, Trim(stored), payload))>>
  /\ UNCHANGED <<cache, appVars, fetch, loadedAt>>

\* callGemini reads the key with its own getApiKey, which trims it.
CallGeminiSends ==
  /\ \E stored \in StoredKeyValues, payload \in RequestPayloads :
       /\ Trim(stored) # <<>>
       /\ calls' = <<Call("fetch", [variant |-> "callGemini", stored |-> stored],
                          callGeminiRequest(Trim(stored), payload))>>
  /\ UNCHANGED <<cache, appVars, fetch, loadedAt>>

\* callGeminiAPI reads the key from localStorage as it is stored.
CallGeminiAPISends ==
  /\ \E stored \in StoredKeyValues, payload \in RequestPayloads :
       /\ stored # <<>>
       /\ calls' = <<Call("fetch", [variant |-> "callGeminiAPI", stored |-> stored],
                          callGeminiAPIRequest(stored, payload))>>
  /\ UNCHANGED <<cache, appVars, fetch, loadedAt>>

RequestNext ==
  \/ GeminiFetchSends
  \/ CallGeminiSends
  \/ CallGeminiAPISends

RequestSpec == Init /\ [][RequestNext]_vars

\* ------------------------------------------- parseRetryDelaySeconds alone
\* Error bodies as the service or anything between may send them: text that
\* is not JSON, JSON without error.details, details that is not a list, and
\* lists of up to MaxDetails entries: null, an ErrorInfo entry, and RetryInfo
\* entries without retryDelay, with a number, and with a string.
MaxDetails == 2
DelayTexts ==
  {<<"0", "s">>, <<"7", "s">>, <<"1", "2", "s">>, <<"1", ".", "5", "s">>,
   <<"5", "m", "s">>, <<"-", "3", "s">>, <<"s">>, <<"7">>}
DetailValues ==
  {Detail(TRUE, "absent", "absent", <<>>),
   Detail(FALSE, ErrorInfoType, "absent", <<>>),
   Detail(FALSE, RetryInfoType, "absent", <<>>),
   Detail(FALSE, RetryInfoType, "number", <<>>)}
    \cup {Detail(FALSE, RetryInfoType, "string", d) : d \in DelayTexts}
ErrorBodies ==
  {ErrPlain, ErrBody(TRUE, "absent", <<>>), ErrBody(TRUE, "notlist", <<>>)}
    \cup {ErrBody(TRUE, "list", ds) :
            ds \in UNION {[1..n -> DetailValues] : n \in 0..MaxDetails}}

ParseCall ==
  /\ \E errText \in ErrorBodies :
       calls' = <<Call("parseRetryDelaySeconds", errText,
                       parseRetryDelaySeconds(errText))>>
  /\ UNCHANGED <<cache, appVars, fetch, loadedAt>>

ParseSpec == Init /\ [][ParseCall]_vars

\* ------------------------------------------------ the session list alone
\* init over what an earlier page load may have stored, and the handlers that
\* change the session list or the active session: create, open, delete,
\* import, and the two language switches.  The logs play no part: stored and
\* imported sessions are taken with empty logs.
MaxImported == 2

\* An entry of an imported file: a value mergeSessions skips (null, no id, or
\* messages that is not a list), or a session with its id and updatedAtISO.
ImportedEntry(valid, id, stamp) == [valid |-> valid, id |-> id, updatedAtISO |-> stamp]
ImportedFiles ==
  UNION {[1..n -> {ImportedEntry(FALSE, 0, <<>>),
                   ImportedEntry(TRUE, 1, <<0>>),
                   ImportedEntry(TRUE, 101, <<>>),
                   ImportedEntry(TRUE, 101, <<TickMs>>),
                   ImportedEntry(TRUE, 102, <<0>>)}] : n \in 0..MaxImported}

\* sessions.sort by (b.updatedAtISO || "").localeCompare(a.updatedAtISO || ""):
\* latest first, a missing stamp last, equal stamps in their order (the sort
\* is stable).
RECURSIVE InsertByStamp(_, _, _)
InsertByStamp(sorted, id, stamps) ==
  LET key(s) == IF s = <<>> THEN -1 ELSE s[1] IN
  IF sorted = <<>> THEN <<id>>
  ELSE IF key(stamps[Head(sorted)]) >= key(stamps[id])
    THEN <<Head(sorted)>> \o InsertByStamp(Tail(sorted), id, stamps)
  ELSE <<id>> \o sorted
RECURSIVE SortByUpdatedAt(_, _)
SortByUpdatedAt(list, stamps) ==
  IF list = <<>> THEN <<>>
  ELSE InsertByStamp(SortByUpdatedAt(SubSeq(list, 1, Len(list) - 1), stamps),
                     Last(list), stamps)

\* Mutant: the copy of an imported session keeping its id.
CopyIdKept(s, list, next) == s.id

\* The id of the copy of an imported session: a new one if the list has its id.
CopyId(s, list, next) == IF s.id \in SeqRange(list) THEN next ELSE s.id

\* The forEach of mergeSessions over the list, the next new id and the stamps.
RECURSIVE MergeEntries(_, _)
MergeEntries(st, imported) ==
  IF imported = <<>> THEN st
  ELSE IF ~Head(imported).valid THEN MergeEntries(st, Tail(imported))
  ELSE LET s == Head(imported)
           id == CopyId(s, st.sessions, st.nextId)
       IN MergeEntries(
            [sessions |-> Append(st.sessions, id),
             nextId |-> IF s.id \in SeqRange(st.sessions) THEN st.nextId + 1 ELSE st.nextId,
             updatedAtISO |-> [st.updatedAtISO EXCEPT ![id] = s.updatedAtISO]],
            Tail(imported))

mergeSessions(imported) ==
  LET merged == MergeEntries([sessions |-> sessions, nextId |-> nextId,
                              updatedAtISO |-> updatedAtISO], imported)
  IN /\ merged.nextId <= MaxSessions + 1
     /\ sessions' = SortByUpdatedAt(merged.sessions, merged.updatedAtISO)
     /\ nextId' = merged.nextId
     /\ updatedAtISO' = merged.updatedAtISO

\* importFileInput "change": a file that holds a list, or one session.  An id
\* in the file is one of another installation or one given out before.
ImportFileChange ==
  /\ \E imported \in ImportedFiles :
       /\ \A i \in 1..Len(imported) :
            imported[i].valid => imported[i].id \in ForeignIds \cup 1..(nextId - 1)
       /\ mergeSessions(imported)
  /\ event' = NoEvent
  /\ UNCHANGED <<cache, fetch, loadedAt, calls, activeSessionId, messages, pendingRetry,
                 sendDisabled, language, apiKey, onLine, nowMs, turns, started,
                 retryHistory>>

\* The delete button of a row of the sessions list, confirmed.
DeleteSessionClick ==
  /\ \E id \in SeqRange(sessions) :
       LET rest == SelectSeq(sessions, LAMBDA x : x # id) IN
       IF activeSessionId # id
         THEN /\ sessions' = rest
              /\ UNCHANGED <<activeSessionId, nextId, updatedAtISO>>
       ELSE IF rest # <<>>
         THEN /\ sessions' = rest
              /\ activeSessionId' = rest[1]
              /\ UNCHANGED <<nextId, updatedAtISO>>
       ELSE /\ nextId <= MaxSessions
            /\ sessions' = <<nextId>>
            /\ activeSessionId' = nextId
            /\ nextId' = nextId + 1
            /\ updatedAtISO' = [updatedAtISO EXCEPT ![nextId] = <<nowMs>>]
  /\ event' = NoEvent
  /\ UNCHANGED <<cache, fetch, loadedAt, calls, messages, pendingRetry, sendDisabled,
                 language, apiKey, onLine, nowMs, turns, started, retryHistory>>

\* init over the stored list and the stored active id (0: none stored).
init(storedSessions, storedActive) ==
  IF storedSessions = <<>>
    THEN /\ sessions = <<1>>
         /\ activeSessionId = 1
         /\ nextId = 2
         /\ updatedAtISO = [id \in SessionIds \cup ForeignIds |->
                              IF id = 1 THEN <<0>> ELSE <<>>]
    ELSE /\ sessions = storedSessions
         /\ activeSessionId =
              IF storedActive = 0 \/ storedActive \notin SeqRange(storedSessions)
                THEN storedSessions[1] ELSE storedActive
         /\ nextId = 1
         /\ updatedAtISO = [id \in SessionIds \cup ForeignIds |->
                              IF id \in SeqRange(storedSessions) THEN <<0>> ELSE <<>>]

SessionInit ==
  /\ \E storedSessions \in {<<>>, <<101>>, <<101, 102>>, <<102, 101>>},
        storedActive \in {0} \cup ForeignIds :
       init(storedSessions, storedActive)
  /\ messages = [id \in SessionIds |-> <<>>]
  /\ pendingRetry = <<>>
  /\ sendDisabled = FALSE
  /\ language = DEFAULT_LANGUAGE
  /\ apiKey \in StoredKeys
  /\ onLine \in BOOLEAN
  /\ nowMs = 0
  /\ turns = <<>>
  /\ started = 0
  /\ event = NoEvent
  /\ retryHistory = NoHistory
  /\ fetch = NoFetch
  /\ loadedAt = PageLoaded
  /\ calls = <<>>
  /\ cache = {}

SessionNext ==
  \/ NewSessionClick
  \/ OpenSessionClick
  \/ DeleteSessionClick
  \/ ImportFileChange
  \/ LangToggleClick
  \/ SettingsLangChange

SessionSpec == SessionInit /\ [][SessionNext]_vars

\* ------------------------------------------------ the single-stage variant
\* part_001: callGemini is the one network call of a turn.  pendingRetry holds
\* its marker pendingSend, <<>> (null) or <<[sessionId, whenISO]>>; an
\* invocation is suspended at pc "Generating" only.

\* callGemini up to its await: the guard, then setSendingDisabled(true) and
\* the request.
callGemini(session, isOnline, origin) ==
  LET g == GuardOutcome(getApiKey, isOnline)
      turn == [Turn(started + 1, session, <<>>, origin) EXCEPT !.pc = "Generating"]
  IN IF g # "pass"
       THEN /\ event' = Event("guard", 0, origin, NoResult, g)
            /\ UNCHANGED <<turns, started, sendDisabled>>
       ELSE /\ started < MaxTurns
            /\ started' = started + 1
            /\ turns' = Append(turns, turn)
            /\ sendDisabled' = TRUE
            /\ event' = Event("started", turn.id, origin, NoResult, "continues")

\* callGemini after its await.  A response that is not ok, a rejected fetch
\* (status 0) and an error raised by res.json() (a body that does not parse)
\* or by extractAssistantText leave pendingSend set; a reply is pushed
\* untrimmed, and pendingSend cleared.
CallGeminiReturns ==
  \E t \in 1..Len(turns), result \in GeneratingResults :
    LET e == extractTextFromGemini(result.json)
        marker == <<[sessionId |-> turns[t].session, whenISO |-> nowMs]>>
    IN
    /\ turns[t].pc = "Generating"
    /\ IF ~result.ok
         THEN /\ pendingRetry' = marker
              /\ EndTurn(t, result, IF result.status = 0 THEN "NetworkError" ELSE "GeminiError")
              /\ UNCHANGED messages
       ELSE IF result.json = JsonNull \/ e.threw
         THEN /\ pendingRetry' = marker
              /\ EndTurn(t, result, "NetworkError")
              /\ UNCHANGED messages
       ELSE /\ messages' = [messages EXCEPT ![turns[t].session] =
                             Append(@, Message("assistant",
                                               IF e.val # <<>> THEN e.val ELSE NoResponse))]
            /\ pendingRetry' = <<>>
            /\ EndTurn(t, result, "Done")
    /\ UNCHANGED <<cache, fetch, loadedAt, calls, updatedAtISO, sessions, activeSessionId,
                   language, apiKey, onLine, nowMs, nextId, started, retryHistory>>

\* inputForm "submit" in part_001: insertUserMessage, then callGemini.
CallGeminiSend ==
  /\ ~sendDisabled
  /\ \E rawText \in FormInputs :
       LET text == Trim(rawText) IN
       IF text = <<>> \/ getActiveSession = {}
         THEN /\ event' = NoEvent
              /\ UNCHANGED <<messages, turns, started, sendDisabled>>
         ELSE /\ UserMessageCount < MaxSends
              /\ messages' = [messages EXCEPT ![activeSessionId] =
                                Append(@, Message("user", text))]
              /\ callGemini(activeSessionId, onLine, "send")
  /\ UNCHANGED <<cache, fetch, loadedAt, calls, updatedAtISO, sessions, activeSessionId,
                 pendingRetry, language, apiKey, onLine, nowMs, nextId, retryHistory>>

\* window "online" in part_001: callGemini on the active session whenever
\* pendingSend is set.
CallGeminiOnline ==
  /\ ~onLine
  /\ onLine' = TRUE
  /\ IF pendingRetry # <<>> /\ getActiveSession # {}
       THEN callGemini(activeSessionId, TRUE, "retry")
       ELSE /\ event' = NoEvent
            /\ UNCHANGED <<turns, started, sendDisabled>>
  /\ UNCHANGED <<cache, fetch, loadedAt, calls, updatedAtISO, sessions, activeSessionId,
                 messages, pendingRetry, language, apiKey, nowMs, nextId, retryHistory>>

SingleNext ==
  \/ CallGeminiSend
  \/ CallGeminiReturns
  \/ CallGeminiOnline
  \/ OfflineEvent
  \/ NewSessionClick

SingleSpec == Init /\ [][SingleNext]_vars

\* ------------------------------------------------------ the service worker
\* sw.js.  A request is its URL's hostname, as the list of its labels, and
\* its path; the page is served from AppHost.
GenerationHost == <<"generativelanguage", "googleapis", "com">>
AppHost == <<"app", "example">>
SwRequest(hostname, path) == [hostname |-> hostname, path |-> path]
APP_SHELL ==
  {SwRequest(AppHost, "/"), SwRequest(AppHost, "./index.html"),
   SwRequest(AppHost, "./app.js"), SwRequest(AppHost, "./manifest.webmanifest"),
   SwRequest(AppHost, "./icons/icon.svg")}
SwRequests ==
  {SwRequest(GenerationHost, "/v1beta/models/gemini-2.5-flash:generateContent"),
   SwRequest(GenerationHost, "/v1beta/models/gemini-flash-lite-latest:generateContent"),
   SwRequest(GenerationHost \o <<"example">>, "/"),
   SwRequest(<<"fonts", "googleapis", "com">>, "/css2"),
   SwRequest(<<"cdn", "tailwindcss", "com">>, "/"),
   SwRequest(AppHost, "./app.js"),
   SwRequest(AppHost, "./icons/icon-192.png")}

\* String.prototype.includes on hostnames: the labels of part in a row.
Includes(hostname, part) ==
  \E i \in 1..(Len(hostname) - Len(part) + 1) :
    SubSeq(hostname, i, i + Len(part) - 1) = part

\* Mutant: a fetch listener without its first test.
BypassedNever(request) == FALSE

\* The first test of the fetch listener, on which it returns without
\* event.respondWith.
Bypassed(request) == Includes(request.hostname, GenerationHost)

\* What the listener did with an event: from is where the response it gave
\* came from ("none": it gave none and the browser handled the request;
\* "nothing": the promise it gave yielded no response), stored whether it put
\* the response into the cache.
Handled(from, stored) == [from |-> from, stored |-> stored]

\* "install": the application shell is added to the cache.
InstallEvent ==
  /\ cache' = cache \cup APP_SHELL
  /\ calls' = <<>>
  /\ UNCHANGED <<appVars, fetch, loadedAt>>

\* "fetch": bypass, cache-first for the page's origin, network-first for the
\* rest; the network answers (networkOk) or fails.
FetchEvent ==
  /\ \E request \in SwRequests, networkOk \in BOOLEAN :
       LET handled ==
             IF Bypassed(request) THEN Handled("none", FALSE)
             ELSE IF request.hostname = AppHost
               THEN IF request \in cache THEN Handled("cache", FALSE)
                    ELSE IF networkOk THEN Handled("network", TRUE)
                    ELSE Handled("nothing", FALSE)
             ELSE IF networkOk THEN Handled("network", TRUE)
             ELSE IF request \in cache THEN Handled("cache", FALSE)
             ELSE Handled("nothing", FALSE)
       IN /\ cache' = IF handled.stored THEN cache \cup {request} ELSE cache
          /\ calls' = <<Call("fetch", request, handled)>>
  /\ UNCHANGED <<appVars, fetch, loadedAt>>

SwNext ==
  \/ InstallEvent
  \/ FetchEvent

SwSpec == Init /\ [][SwNext]_vars

\* ------------------------------------------------------------- properties
\* The suspended invocation numbered id.
TurnOf(id) == turns[CHOOSE i \in 1..Len(turns) : turns[i].id = id]
Suspended(q, id) == \E i \in 1..Len(q) : q[i].id = id

\* The last step called callGuruji.
Invoked(e) == e.type \in {"guard", "started"}
\* The last step resumed an invocation at the await of stage.
Returned(e, stage) == e.type = "returned" /\ e.stage = stage

\* A success body in the service's envelope: a first candidate whose content
\* has a list of parts, each an object with a text.
WellFormed(json) ==
  /\ ~json.isNull /\ json.hasCandidates /\ json.candidates # <<>>
  /\ json.candidates[1].hasContent
  /\ json.candidates[1].partsKind = "list"
  /\ \A i \in 1..Len(json.candidates[1].parts) :
       json.candidates[1].parts[i].kind = "object" /\ json.candidates[1].parts[i].hasText

RECURSIVE ConcatTexts(_)
ConcatTexts(parts) ==
  IF parts = <<>> THEN <<>> ELSE Head(parts).text \o ConcatTexts(Tail(parts))

\* A result without usable output: a non-ok status, a timeout or network
\* failure, an unparsable or malformed success body, or an empty text.
NoOutput(result) ==
  \/ ~result.ok
  \/ ~WellFormed(result.json)
  \/ Trim(ConcatTexts(result.json.candidates[1].parts)) = <<>>

\* A retryDelay of the form "<N>s", N a run of digits.
IsSeconds(delay) ==
  /\ Len(delay) >= 2
  /\ delay[Len(delay)] = "s"
  /\ \A i \in 1..(Len(delay) - 1) : delay[i] \in Digits

\* The delays an error body states: every N for which it is JSON whose
\* error.details holds a RetryInfo entry with retryDelay "<N>s".
StatedDelays(errText) ==
  IF ~errText.isJson \/ errText.detailsKind # "list" THEN {}
  ELSE { DigitsValue(SubSeq(errText.details[i].retryDelay, 1,
                            Len(errText.details[i].retryDelay) - 1)) :
           i \in { j \in 1..Len(errText.details) :
                     /\ ~errText.details[j].isNull
                     /\ errText.details[j].type = RetryInfoType
                     /\ errText.details[j].delayKind = "string"
                     /\ IsSeconds(errText.details[j].retryDelay) } }

\* C1: at most one turn is in flight per session: no two suspended
\* invocations of callGuruji are on the same session.
C1_OneTurnInFlightPerSession ==
  \A i, j \in 1..Len(turns) : i # j => turns[i].session # turns[j].session

\* C2: a call of callGuruji with an empty or whitespace-only stored key, or
\* while offline, returns at the guard: no invocation is suspended at a
\* network call by it and the send affordance is left alone.
C2_GuardIssuesNoCall ==
  [][ (Invoked(event') /\ (Trim(apiKey') = <<>> \/ ~onLine'))
        => (event'.type = "guard" /\ turns' = turns /\ sendDisabled' = sendDisabled) ]_vars

C2_Witness ==
  /\ event.type = "guard"
  /\ apiKey = <<" ">>
  /\ \E id \in SessionIds : messages[id] # <<>>

\* C3: whenever the interpreter call returns without usable output, the
\* invocation goes on to Generating and the last entry of its request is the
\* raw user text.
C3_InterpreterFailureNonFatal ==
  [][ (Returned(event', "Interpreting") /\ NoOutput(event'.result))
        => /\ Suspended(turns', event'.id)
           /\ \A i \in 1..Len(turns') :
                turns'[i].id = event'.id =>
                  /\ turns'[i].pc = "Generating"
                  /\ Last(turns'[i].payload.contents)
                       = Content("user", TurnOf(event'.id).rawUserText) ]_vars

\* C4: when the persona call fails, the invocation ends, the step appends
\* nothing to any log, and the user message of the turn is in the log of its
\* session.
C4_GeneratingFailureKeepsLog ==
  [][ (Returned(event', "Generating") /\ ~event'.result.ok)
        => /\ ~Suspended(turns', event'.id)
           /\ messages' = messages
           /\ \E i \in 1..Len(messages'[TurnOf(event'.id).session]) :
                messages'[TurnOf(event'.id).session][i]
                  = Message("user", TurnOf(event'.id).rawUserText) ]_vars

C4_Witness ==
  /\ Returned(event, "Generating")
  /\ ~event.result.ok
  /\ event.result.status = 0
  /\ \E id \in SessionIds : messages[id] # <<>> /\ Last(messages[id]).role = "user"

\* C5: a 429 persona response whose body states a delay of N seconds, N >= 0,
\* leaves a token with the session and the raw text of the turn and the time
\* of the failure plus N seconds, and appends no message.
C5_RateLimitDelayCreatesToken ==
  [][ (Returned(event', "Generating") /\ ~event'.result.ok
         /\ event'.result.status = 429)
        => \A n \in StatedDelays(event'.result.text) :
             /\ pendingRetry' = <<RetryToken(TurnOf(event'.id).session,
                                             TurnOf(event'.id).rawUserText,
                                             nowMs + n * 1000)>>
             /\ messages' = messages ]_vars

\* C6: a turn that ends at the guard, or by a persona failure other than a
\* 429 that states a delay, leaves pendingRetry as it was.
C6_OnlyRateLimitDelaySchedulesRetry ==
  [][ ( \/ event'.type = "guard"
        \/ /\ Returned(event', "Generating")
           /\ ~event'.result.ok
           /\ ~(event'.result.status = 429 /\ StatedDelays(event'.result.text) # {}) )
        => pendingRetry' = pendingRetry ]_vars

C6_Witness ==
  /\ pendingRetry # <<>>
  /\ Returned(event, "Generating")
  /\ ~event.result.ok
  /\ event.result.status \in {0, 429}
  /\ event.outcome # "RateLimitedRetryAt"

\* C7: once the user has sent a message after pendingRetry was set, no
\* "online" event calls callGuruji for that token.
C7_NewerSendSupersedesRetry ==
  [][ (Invoked(event') /\ event'.stage = "retry") => ~retryHistory.sentSince ]_vars

\* C8: a token triggers at most one automatic call of callGuruji.
C8_AtMostOneRetryPerToken == retryHistory.retries <= 1

\* C9: a due token on the active session, with nothing sent since, is
\* eventually retried, whether or not an "online" event comes.
C9_ScheduledRetryHappens ==
  ( /\ pendingRetry # <<>>
    /\ nowMs >= pendingRetry[1].retryAtMs
    /\ pendingRetry[1].sessionId = activeSessionId
    /\ retryHistory.retries = 0 )
  ~> ( \/ retryHistory.retries > 0
       \/ retryHistory.sentSince
       \/ pendingRetry = <<>>
       \/ pendingRetry[1].sessionId # activeSessionId )

\* C10: an "online" event calls callGuruji only when a token exists, its
\* time has come and its session is the active one.
C10_RetryOnlyWhenDue ==
  [][ (~onLine /\ onLine' /\ Invoked(event'))
        => /\ pendingRetry # <<>>
           /\ nowMs >= pendingRetry[1].retryAtMs
           /\ pendingRetry[1].sessionId = activeSessionId
           /\ event'.stage = "retry" ]_vars

C10_Witness ==
  /\ event.type = "started"
  /\ event.stage = "retry"
  /\ pendingRetry # <<>>
  /\ pendingRetry[1].sessionId = activeSessionId

\* C11: a turn uses the language read when it started: the persona
\* instruction of its Generating request is in that language, and once its
\* persona call has returned a reply it issues the translation call exactly
\* when that language is Marathi and the reply looks English.
C11_OneLanguagePerTurn ==
  [][ /\ \A i \in 1..Len(turns') :
           turns'[i].pc # "Interpreting"
             => turns'[i].payload.system.languageLock = turns'[i].interpLang
      /\ (Returned(event', "Generating") /\ event'.result.ok
             /\ ~ReplyText(event'.result).threw)
           => (Suspended(turns', event'.id)
                 <=> /\ TurnOf(event'.id).interpLang = "mr"
                     /\ looksEnglish(ReplyText(event'.result).val)) ]_vars

\* C12: in Marathi mode, a persona reply with at least 40 Latin letters and
\* no Devanagari character makes the turn issue the translation call, once;
\* a reply with fewer than 40 Latin letters makes it issue none.
C12_TranslationIssuedFromFortyLatin ==
  [][ (Returned(event', "Generating") /\ event'.result.ok
         /\ ~ReplyText(event'.result).threw
         /\ language = "mr" /\ TurnOf(event'.id).interpLang = "mr")
        => LET reply == ReplyText(event'.result).val
               issued == { i \in 1..Len(turns') :
                             /\ turns'[i].id = event'.id
                             /\ turns'[i].pc = "TranslationCheck" }
           IN /\ (CountIn(reply, Latin) >= 40 /\ CountIn(reply, Devanagari) = 0)
                   => Cardinality(issued) = 1
              /\ CountIn(reply, Latin) < 40 => issued = {} ]_vars

\* C13: when the translation call returns without usable output, the turn
\* ends Done and the assistant message it stores is the reply of the persona
\* call, untranslated.
C13_TranslationFailureKeepsReply ==
  [][ (Returned(event', "TranslationCheck") /\ NoOutput(event'.result))
        => /\ event'.outcome = "Done"
           /\ messages' = [messages EXCEPT ![TurnOf(event'.id).session] =
                             Append(@, Message("assistant", TurnOf(event'.id).reply))] ]_vars

\* C14: every step leaves each log as it was or appends one message to one
\* log: a user message in a step that sends, an assistant message in a step
\* that completes a turn.
C14_LogAppendOnly ==
  [][ \A id \in SessionIds :
        \/ messages'[id] = messages[id]
        \/ /\ Len(messages'[id]) = Len(messages[id]) + 1
           /\ SubSeq(messages'[id], 1, Len(messages[id])) = messages[id]
           /\ \A other \in SessionIds \ {id} : messages'[other] = messages[other]
           /\ \/ /\ Last(messages'[id]).role = "user"
                 /\ Invoked(event') /\ event'.stage = "send"
              \/ /\ Last(messages'[id]).role = "assistant"
                 /\ event'.type = "returned" /\ event'.outcome = "Done" ]_vars

C14_Witness ==
  \E id \in SessionIds :
    /\ Len(messages[id]) >= 3
    /\ messages[id][2].role = "assistant"
    /\ messages[id][3].role = "user"

\* The classes of failure the specification names, by status, and the class
\* each reported condition stands for.
StatusClass(status) ==
  CASE status = 429 -> "rate-limit"
    [] status \in {401, 403} -> "invalid-credential"
    [] status = 400 -> "malformed-request"
    [] status = 404 -> "not-found"
    [] status = 0 -> "transient-failure"
    [] OTHER -> "other"
ConditionClass(outcome) ==
  CASE outcome \in {"RateLimited", "RateLimitedRetryAt"} -> "rate-limit"
    [] outcome = "InvalidCredential" -> "invalid-credential"
    [] outcome = "BadRequest" -> "malformed-request"
    [] outcome = "NotFound" -> "not-found"
    [] outcome = "ApiError" -> "transient-failure"
    [] OTHER -> "other"

\* The calendar: the civil date an ISO text names, the text of a civil date,
\* and the civil date that follows a civil date.
LeapYear(y) == (y % 4 = 0 /\ y % 100 # 0) \/ y % 400 = 0
DaysInMonth(y, m) ==
  IF m = 2 THEN (IF LeapYear(y) THEN 29 ELSE 28)
  ELSE IF m \in {4, 6, 9, 11} THEN 30 ELSE 31
NextCivil(c) ==
  IF c.d < DaysInMonth(c.y, c.m) THEN [y |-> c.y, m |-> c.m, d |-> c.d + 1]
  ELSE IF c.m < 12 THEN [y |-> c.y, m |-> c.m + 1, d |-> 1]
  ELSE [y |-> c.y + 1, m |-> 1, d |-> 1]
RECURSIVE CivilAfter(_, _)
CivilAfter(c, k) == IF k = 0 THEN c ELSE CivilAfter(NextCivil(c), k - 1)
CivilOfISO(iso) ==
  [y |-> DigitsValue(SubSeq(iso, 1, 4)), m |-> DigitsValue(SubSeq(iso, 6, 7)),
   d |-> DigitsValue(SubSeq(iso, 9, 10))]
ISOOfCivil(c) ==
  <<DigitChars[(c.y \div 1000) + 1], DigitChars[((c.y \div 100) % 10) + 1],
    DigitChars[((c.y \div 10) % 10) + 1], DigitChars[(c.y % 10) + 1], "-",
    DigitChars[(c.m \div 10) + 1], DigitChars[(c.m % 10) + 1], "-",
    DigitChars[(c.d \div 10) + 1], DigitChars[(c.d % 10) + 1]>>

\* The text carries the credential: the stored key without the whitespace
\* around it, or the key percent-encoded, occurs in it.
Occurs(needle, text) ==
  \E i \in 1..(Len(text) - Len(needle) + 1) :
    SubSeq(text, i, i + Len(needle) - 1) = needle
CredentialIn(text, stored) ==
  Occurs(Trim(stored), text) \/ Occurs(encodeURIComponent(stored), text)

\* The body has a first candidate whose content has a parts list.
WellFormedParts(data) ==
  /\ ~data.isNull /\ data.hasCandidates /\ data.candidates # <<>>
  /\ data.candidates[1].hasContent
  /\ data.candidates[1].partsKind = "list"

\* The assistant messages of all logs.
AssistantMessages(logs) ==
  { <<id, i>> \in SessionIds \X (1..(2 * MaxSends + MaxTurns + 1)) :
      i <= Len(logs[id]) /\ logs[id][i].role = "assistant" }

\* C15: a step adds an assistant message only when it completes a turn: the
\* persona call of the invocation has succeeded, its translation call, if
\* issued, has returned, the invocation has ended with Done, and the step
\* adds one message.
C15_AssistantOnlyOnDone ==
  [][ AssistantMessages(messages') # AssistantMessages(messages)
        => /\ event'.type = "returned"
           /\ event'.outcome = "Done"
           /\ \/ event'.stage = "Generating" /\ event'.result.ok
              \/ event'.stage = "TranslationCheck"
           /\ ~Suspended(turns', event'.id)
           /\ Cardinality(AssistantMessages(messages'))
                = Cardinality(AssistantMessages(messages)) + 1 ]_vars

C15_Witness ==
  /\ Returned(event, "TranslationCheck")
  /\ event.outcome = "Done"
  /\ \E id \in SessionIds :
       messages[id] # <<>> /\ Last(messages[id]) = Message("assistant", ReplyTranslated)

\* C16: within a session the reply to a user message is never pushed after
\* the reply to a user message sent later: no invocation completes after a
\* later one on its session has pushed its reply.
C16_RepliesInSendOrder ==
  [][ (event'.type = "returned" /\ event'.outcome = "Done")
        => ~TurnOf(event'.id).overtaken ]_vars

\* C17: while an invocation is suspended at a network call, the send button
\* and the message input are disabled.
C17_SendDisabledWhileInFlight ==
  (\E i \in 1..Len(turns) : turns[i].pc \in InFlight) => sendDisabled

\* C19: the step that builds the Generating request leaves every log as it
\* was, in length, order and content.
C19_BuildPayloadLeavesLog ==
  [][ (Returned(event', "Interpreting") /\ event'.outcome = "continues")
        => messages' = messages ]_vars

C19_Witness ==
  \E i \in 1..Len(turns) :
    /\ turns[i].pc = "Generating"
    /\ Len(turns[i].payload.contents) >= 3
    /\ Last(turns[i].payload.contents) = Content("user", Rewritten)

\* C20: a geminiFetch call is not suspended beyond its timeoutMs, and the
\* result of a call its timer ended is a failure with a status no HTTP
\* response has.
C20_HardTimeout ==
  /\ fetch.phase \in {"fetching", "reading"} => fetch.elapsedMs <= fetch.timeoutMs
  /\ (fetch.phase = "returned" /\ fetch.cause = "aborted")
       => ~fetch.result.ok /\ fetch.result.status \notin 100..599

\* C18: the window of a Generating request, its entries before the final
\* user entry, has MAX_HISTORY entries when the log has more messages than
\* that and as many as the log otherwise; its entries are the last messages
\* of the log in log order, and its last entry is the last message of the
\* log.
C18_WindowIsLastMessages ==
  \A i \in 1..Len(turns) :
    turns[i].pc = "Generating"
      => LET log == messages[turns[i].session]
             contents == turns[i].payload.contents
             window == SubSeq(contents, 1, Len(contents) - 1)
         IN /\ Len(log) > MAX_HISTORY => Len(window) = MAX_HISTORY
            /\ Len(log) <= MAX_HISTORY => Len(window) = Len(log)
            /\ Len(window) <= Len(log)
            /\ \A k \in 1..Len(window) :
                 /\ window[k].text = log[Len(log) - Len(window) + k].content
                 /\ window[k].role = "model"
                      <=> log[Len(log) - Len(window) + k].role = "assistant"
            /\ log # <<>> => window # <<>> /\ Last(window).text = Last(log).content

C18_Witness ==
  /\ turns # <<>>
  /\ turns[1].pc = "Generating"
  /\ Len(messages[turns[1].session]) = MAX_HISTORY + 1
  /\ Len(turns[1].payload.contents) = MAX_HISTORY + 1

\* C21: extractTextFromGemini returns a text for every parsed success body
\* and never raises an error: the text is empty when the body has no parts
\* list, and is the concatenation of the parts' texts otherwise, an entry
\* without text or an entry that is not an object counting as empty.
C21_ExtractNeverFails ==
  \A i \in 1..Len(calls) :
    calls[i].fn = "extractTextFromGemini" =>
      /\ ~calls[i].result.threw
      /\ LET data == calls[i].args IN
           IF WellFormedParts(data)
             THEN calls[i].result.val = JoinParts(data.candidates[1].parts)
             ELSE calls[i].result.val = <<>>

\* C22: a Generating failure is reported under the condition of its status's
\* class: 429 rate-limit, 401 and 403 invalid-credential, 400
\* malformed-request, 404 not-found, timeout or network failure (status 0)
\* transient-failure; and no status under the condition of another class.
C22_FailuresClassified ==
  (Returned(event, "Generating") /\ ~event.result.ok) =>
    ConditionClass(event.outcome) = StatusClass(event.result.status)

C22_Witness ==
  /\ Returned(event, "Generating")
  /\ ~event.result.ok
  /\ event.result.status = 0
  /\ event.outcome = "ApiError"

\* C23: the step that completes a turn, appending its assistant message,
\* leaves no token outstanding; there is never more than one token; and a
\* step that sets a token while one is outstanding leaves only the new one,
\* that of the invocation whose persona call has just failed with 429.
C23_SuccessClearsTheOneToken ==
  [][ /\ (event'.type = "returned" /\ event'.outcome = "Done")
           => pendingRetry' = <<>>
      /\ Len(pendingRetry') <= 1
      /\ (pendingRetry # <<>> /\ pendingRetry' # pendingRetry
             /\ pendingRetry' # <<>>)
           => /\ Returned(event', "Generating")
              /\ event'.result.status = 429
              /\ \E n \in StatedDelays(event'.result.text) :
                   pendingRetry' = <<RetryToken(TurnOf(event'.id).session,
                                               TurnOf(event'.id).rawUserText,
                                               nowMs + n * 1000)>> ]_vars

\* A turn has completed after a token was outstanding (the clock moves only
\* while one is), and none is left.
C23_Witness ==
  /\ nowMs > 0
  /\ event.type = "returned"
  /\ event.outcome = "Done"
  /\ pendingRetry = <<>>

\* C24: a step that switches the language mode leaves the messages of every
\* existing session as they were and makes a session created by that step,
\* with an empty log, the active one.
C24_LanguageSwitchStartsFreshSession ==
  [][ language' # language
        => /\ \A id \in SeqRange(sessions) :
                id \in SeqRange(sessions') /\ messages'[id] = messages[id]
           /\ activeSessionId' \notin SeqRange(sessions)
           /\ activeSessionId' \in SeqRange(sessions')
           /\ messages'[activeSessionId'] = <<>> ]_vars

\* The mode has been switched away from the default while the first session
\* had messages: the first session keeps them and a later one is active.
C24_Witness ==
  /\ language # DEFAULT_LANGUAGE
  /\ messages[1] # <<>>
  /\ activeSessionId # 1
  /\ messages[activeSessionId] = <<>>

\* C25: two calls of buildInterpreterPrompt, or of
\* buildGurujiSystemInstruction, with the same argument return the same text,
\* whenever each call is made.
C25_BuildersDeterministic ==
  \A i \in 1..Len(calls), j \in 1..Len(calls) :
    ( /\ calls[i].fn \in {"buildInterpreterPrompt", "buildGurujiSystemInstruction"}
      /\ calls[i].fn = calls[j].fn
      /\ calls[i].args = calls[j].args )
      => calls[i].result = calls[j].result

\* C26: for a reference instant t and k in {1, 2}, istDateISO(addDaysIST(t, k))
\* names the k-th calendar date after the date istDateISO(t) names, the date
\* in Asia/Kolkata at t.
C26_TomorrowIsNextCalendarDay ==
  \A i \in 1..Len(calls) :
    calls[i].fn = "addDaysIST" =>
      istDateISO(calls[i].result)
        = ISOOfCivil(CivilAfter(CivilOfISO(istDateISO(calls[i].args.baseDate)),
                                calls[i].args.days))

\* 2024-02-28T18:30:00Z is midnight of 29 February in Asia/Kolkata: the day
\* after tomorrow is 2 March.
C26_Witness ==
  /\ calls # <<>>
  /\ calls[1].fn = "addDaysIST"
  /\ calls[1].args = [baseDate |-> DateAt(DaysFromCivil(2024, 2, 28), 66600000),
                      days |-> 2]
  /\ istDateISO(calls[1].args.baseDate)
       = <<"2", "0", "2", "4", "-", "0", "2", "-", "2", "9">>
  /\ istDateISO(calls[1].result)
       = <<"2", "0", "2", "4", "-", "0", "3", "-", "0", "2">>

\* C27: every request a variant of the application sends to the generation
\* service carries the credential in a header, and neither in its URL nor in
\* its body.
C27_CredentialOnlyInHeader ==
  \A i \in 1..Len(calls) :
    calls[i].fn = "fetch" =>
      LET request == calls[i].result
          stored == calls[i].args.stored
      IN /\ \E h \in request.headers : CredentialIn(h.value, stored)
         /\ ~CredentialIn(request.url, stored)
         /\ ~CredentialIn(request.body, stored)

\* C28: in the Generating request of a turn the turn's own input occurs
\* once: the entries before the final one are the last messages, at most
\* MAX_HISTORY of them, that the log held before this send, none of them the
\* message of this send, and the final entry is a user entry with the query,
\* rewritten or not.
C28_UserInputOnce ==
  \A i \in 1..Len(turns) :
    (turns[i].pc = "Generating" /\ turns[i].origin = "send")
      => LET log == messages[turns[i].session]
             before == SubSeq(log, 1, Len(log) - 1)
             contents == turns[i].payload.contents
             window == SubSeq(contents, 1, Len(contents) - 1)
         IN /\ contents # <<>>
            /\ Last(contents).role = "user"
            /\ Last(contents).text \in {turns[i].rawUserText, Rewritten}
            /\ Len(window) <= MAX_HISTORY
            /\ Len(window) <= Len(before)
            /\ \A k \in 1..Len(window) :
                 /\ window[k].text = before[Len(before) - Len(window) + k].content
                 /\ window[k].text # turns[i].rawUserText

\* C29: an invocation issues its interpreter call first, when it starts; its
\* persona call when, and only when, its interpreter call has returned; its
\* translation call only when its persona call has returned successfully;
\* each call once, in that order; and no call once it has ended.
C29_StagesInOrder ==
  [][ \A id \in 1..MaxTurns :
        /\ (~Suspended(turns, id) /\ Suspended(turns', id))
             => /\ id > started
                /\ event'.type = "started" /\ event'.id = id
                /\ TurnOf(id)'.pc = "Interpreting"
        /\ (Suspended(turns, id) /\ Suspended(turns', id)
              /\ TurnOf(id)'.pc # TurnOf(id).pc)
             => /\ event'.type = "returned" /\ event'.id = id
                /\ \/ /\ TurnOf(id).pc = "Interpreting"
                      /\ event'.stage = "Interpreting"
                      /\ TurnOf(id)'.pc = "Generating"
                   \/ /\ TurnOf(id).pc = "Generating"
                      /\ event'.stage = "Generating"
                      /\ event'.result.ok
                      /\ TurnOf(id)'.pc = "TranslationCheck"
        /\ (Suspended(turns, id) /\ event'.type = "returned" /\ event'.id = id)
             => (~Suspended(turns', id) \/ TurnOf(id)'.pc # TurnOf(id).pc) ]_vars

\* An invocation is at its third call, the translation call.
C29_Witness ==
  \E i \in 1..Len(turns) : turns[i].pc = "TranslationCheck"

\* C30: given that every network call returns or times out, every invocation
\* that has passed the guard ends; the step that ends one, by success, by a
\* Generating failure or by an error raised inside the pipeline, leaves the
\* send affordance enabled; and a disabled affordance is enabled again.
C30_TurnsEndAndReenable ==
  /\ \A id \in 1..MaxTurns : Suspended(turns, id) ~> ~Suspended(turns, id)
  /\ [][ \A id \in 1..MaxTurns :
           (Suspended(turns, id) /\ ~Suspended(turns', id))
             => /\ event'.type = "returned" /\ event'.id = id
                /\ \/ event'.outcome = "Done"
                   \/ event'.stage = "Generating" /\ ~event'.result.ok
                   \/ event'.outcome = "Exception"
                /\ sendDisabled' = FALSE ]_vars
  /\ sendDisabled ~> ~sendDisabled

\* An invocation has just ended by an error raised inside the pipeline, and
\* the send affordance is enabled.
C30_Witness ==
  /\ event.type = "returned"
  /\ event.outcome = "Exception"
  /\ ~sendDisabled

\* C31: a message sent while offline is appended to the log of the active
\* session, and the "online" event that follows submits it: with a key
\* stored, that event starts an invocation for the text of that message.
C31_OfflineSendSubmittedOnline ==
  [][ /\ (event'.type = "guard" /\ event'.outcome = "Offline"
            /\ event'.stage = "send")
           => /\ Len(messages'[activeSessionId]) = Len(messages[activeSessionId]) + 1
              /\ Last(messages'[activeSessionId]).role = "user"
      /\ (event.type = "guard" /\ event.outcome = "Offline"
            /\ event.stage = "send" /\ ~onLine /\ onLine')
           => /\ event'.type = "started"
              /\ \E i \in 1..Len(turns') :
                   /\ turns'[i].id = event'.id
                   /\ turns'[i].session = activeSessionId
                   /\ turns'[i].rawUserText
                        = Last(messages[activeSessionId]).content ]_vars

\* C32: parseRetryDelaySeconds returns N exactly when the body is JSON whose
\* error.details holds a RetryInfo entry with retryDelay "<N>s", N a run of
\* digits, and returns null for every other body.
C32_RetryDelayParsedExactly ==
  \A i \in 1..Len(calls) :
    calls[i].fn = "parseRetryDelaySeconds" =>
      LET stated == StatedDelays(calls[i].args) IN
        /\ stated = {} => calls[i].result = <<>>
        /\ stated # {} => /\ calls[i].result # <<>>
                          /\ calls[i].result[1] \in stated

\* C33: an assistant reply is appended to the log of the session on which
\* its invocation was started and to no other log, whichever session is
\* active when the invocation completes.
C33_ReplyToOriginatingSession ==
  [][ /\ (event'.type = "returned" /\ event'.outcome = "Done")
           => \A id \in SessionIds :
                IF id = TurnOf(event'.id).session
                  THEN /\ Len(messages'[id]) = Len(messages[id]) + 1
                       /\ Last(messages'[id]).role = "assistant"
                  ELSE messages'[id] = messages[id]
      /\ \A id \in SessionIds :
           (/\ Len(messages'[id]) > Len(messages[id])
            /\ Last(messages'[id]).role = "assistant")
             => /\ event'.type = "returned"
                /\ TurnOf(event'.id).session = id ]_vars

\* An invocation has just completed on a session that is no longer the
\* active one: the active session's log holds no reply.
C33_Witness ==
  /\ event.type = "returned" /\ event.outcome = "Done"
  /\ \E id \in SessionIds \ {activeSessionId} :
       /\ messages[id] # <<>>
       /\ Last(messages[id]).role = "assistant"
  /\ \A i \in 1..Len(messages[activeSessionId]) :
       messages[activeSessionId][i].role = "user"

\* The user messages of a log that carry the text.
CopiesOf(log, text) ==
  Cardinality({ i \in 1..Len(log) : log[i].role = "user" /\ log[i].content = text })

\* C34: an automatic retry calls callGuruji without pushing the user's text
\* again: the step of a retry leaves every log as it is, the text it retries
\* is in the log of its session, and a log gains a user message in the step
\* of a send only, so the log holds one copy of the text for each time the
\* user sent it, however many retries follow.
C34_RetryDoesNotResend ==
  [][ /\ (Invoked(event') /\ event'.stage = "retry")
           => /\ messages' = messages
              /\ CopiesOf(messages[pendingRetry[1].sessionId],
                          pendingRetry[1].lastUserText) >= 1
      /\ \A id \in SessionIds :
           (\E i \in 1..Len(messages'[id]) :
              /\ messages'[id][i].role = "user"
              /\ CopiesOf(messages'[id], messages'[id][i].content)
                   > CopiesOf(messages[id], messages'[id][i].content))
             => Invoked(event') /\ event'.stage = "send" ]_vars

\* The second automatic retry of a text has started, and the log of its
\* session holds the text once.
C34_Witness ==
  /\ event.type = "started" /\ event.stage = "retry"
  /\ retryHistory.retries = 2
  /\ pendingRetry # <<>>
  /\ CopiesOf(messages[pendingRetry[1].sessionId], pendingRetry[1].lastUserText) = 1

\* C35: when the persona call returns with an ok status and the text
\* extracted from its body is empty or whitespace only, an unparsable body
\* included, the invocation ends Done, the assistant message it pushes holds
\* the placeholder "[No response]", and no retry token is left.
C35_EmptyReplyGetsPlaceholder ==
  [][ (/\ Returned(event', "Generating") /\ event'.result.ok
       /\ ~extractTextFromGemini(event'.result.json).threw
       /\ Trim(extractTextFromGemini(event'.result.json).val) = <<>>)
        => /\ event'.outcome = "Done"
           /\ messages' = [messages EXCEPT ![TurnOf(event'.id).session] =
                             Append(@, Message("assistant", NoResponse))]
           /\ pendingRetry' = <<>> ]_vars

\* A persona call has returned an unparsable success body and the log of
\* some session ends with the placeholder.
C35_Witness ==
  /\ Returned(event, "Generating") /\ event.result.ok
  /\ event.result.json = JsonNull
  /\ event.outcome = "Done"
  /\ \E id \in SessionIds :
       /\ messages[id] # <<>>
       /\ Last(messages[id]) = Message("assistant", NoResponse)

\* C36: after init and after any sequence of create, open, delete, import
\* and language switch, the session list is not empty, its ids are pairwise
\* distinct, and the active session id is the id of a session of the list,
\* so that getActiveSession yields a session.
C36_SessionListWellFormed ==
  /\ sessions # <<>>
  /\ \A i, j \in 1..Len(sessions) : i # j => sessions[i] # sessions[j]
  /\ activeSessionId \in SeqRange(sessions)
  /\ getActiveSession # {}

\* The list holds a stored session, a copy that an import gave a new id, and
\* a third session, and the active session is not the first of the list.
C36_Witness ==
  /\ Len(sessions) >= 3
  /\ SeqRange(sessions) \cap ForeignIds # {}
  /\ \E id \in SeqRange(sessions) \cap SessionIds : updatedAtISO[id] # <<nowMs>>
  /\ activeSessionId # sessions[1]

\* C37: what the single-stage variant does is what the full variant does with
\* its Interpreting and TranslationCheck steps skipped: a retry marker is set
\* only when the call fails with 429 and a stated delay, and cleared only
\* when a turn is Done; the "online" event calls again only for a marker of
\* the active session; an invocation passes the guard only with a key and
\* online; and an assistant message is pushed exactly when the call returns
\* ok with a body whose text can be extracted, its content that text trimmed
\* or the placeholder.
C37_SingleStageIsSubset ==
  [][ /\ (pendingRetry' # <<>> /\ pendingRetry' # pendingRetry)
           => /\ Returned(event', "Generating")
              /\ ~event'.result.ok
              /\ event'.result.status = 429
              /\ Truthy(parseRetryDelaySeconds(event'.result.text))
      /\ (pendingRetry # <<>> /\ pendingRetry' = <<>>) => event'.outcome = "Done"
      /\ (~onLine /\ onLine' /\ Invoked(event'))
           => /\ pendingRetry # <<>>
              /\ pendingRetry[1].sessionId = activeSessionId
      /\ event'.type = "started" => getApiKey # <<>> /\ onLine'
      /\ (Returned(event', "Generating") /\ event'.result.ok
             /\ ~ReplyText(event'.result).threw)
           => messages' = [messages EXCEPT ![TurnOf(event'.id).session] =
                             Append(@, Message("assistant", ReplyText(event'.result).val))]
      /\ (\E id \in SessionIds :
             /\ Len(messages'[id]) > Len(messages[id])
             /\ Last(messages'[id]).role = "assistant")
           => /\ Returned(event', "Generating") /\ event'.result.ok
              /\ ~ReplyText(event'.result).threw ]_vars

\* C38: the service worker neither answers nor caches a call to the
\* generation service: for a fetch event whose request goes to that host the
\* listener gives no response, from the cache or otherwise, and stores
\* none, and the cache never holds a request to that host.
C38_GenerationCallsBypassWorker ==
  /\ \A i \in 1..Len(calls) :
       (calls[i].fn = "fetch" /\ calls[i].args.hostname = GenerationHost)
         => calls[i].result = Handled("none", FALSE)
  /\ \A request \in cache : request.hostname # GenerationHost

\* A call to the generation service has passed the listener while the cache
\* held responses of the application shell and of another host.
C38_Witness ==
  /\ calls # <<>>
  /\ calls[1].fn = "fetch" /\ calls[1].args.hostname = GenerationHost
  /\ calls[1].result.from = "none"
  /\ \E request \in cache : request.hostname = AppHost
  /\ \E request \in cache : request.hostname \notin {AppHost, GenerationHost}

====
